---- MODULE Spec2Model ----
(***************************************************************************)
(* Model of the multi-source company collector (src/src/*.py):             *)
(* identifier validation, relevance filters, segment classifiers, the      *)
(* source adapters' collect loops, ParserManager.merge_results and         *)
(* ParserManager.save_merged_results.                                      *)
(*                                                                         *)
(* Encoding of Python values                                               *)
(*   - a str is a sequence of atoms (characters for an INN, words for a    *)
(*     name/description/category, one atom for a URL or an OKVED code);    *)
(*     '' is <<>>; the Cyrillic keywords are transliterated to ASCII;      *)
(*   - None in a text-valued field is the value None below, None in an     *)
(*     integer-valued field is NoneInt;                                    *)
(*   - a dict is a sequence of <<key, value>> pairs in insertion order.    *)
(***************************************************************************)
EXTENDS Integers, Sequences, FiniteSets, TLC

VARIABLES
    inn_in,            \* identifier handed to the validity test
    valid_out,         \* "pending" | "True" | "False": result of the test
    cls_company,       \* record handed to a segment classifier
    cls_by,            \* "none" or the classifier that was called
    cls_labels,        \* labels returned by the call (<<>> before the call)
    cls_again,         \* labels returned by a second call on the same record
    all_results,       \* Dict[str, List[Dict]]: <<parser_name, companies>> in map order
    merged_companies,  \* result of merge_results(all_results)
    merged_from,       \* auxiliary: parser_name each merged record was filed under
    merged_twice,      \* result of merging every list together with a second copy of itself
    mpc,               \* "input" | "merged" | "saved": position of merge and save
    ppc,               \* the parser run_all_parsers is at, "collected" after the last, "idle"
    phase,             \* where that parser's collect_companies is
    cur_companies,     \* the list that collect_companies is building
    candidate,         \* the last page, document or item it was given
    exported,          \* the table save_merged_results wrote
    max_per_parser,    \* run_all_parsers' argument, passed to every collect_companies
    nat_company,       \* record handed to a nationality check
    nat_by,            \* "none" or the adapter whose check was called
    nat_out,           \* "pending" | "True" | "False": result of the check
    fetch_by,          \* the adapter whose _make_request is running ("none": no call)
    fetch_max_retries, \* its max_retries argument
    fetch_seen,        \* auxiliary: what each session.get so far gave
    fetch_waits,       \* the sleeps so far: <<low, high>> seconds each
    fetch_pc,          \* "loop" | "returned"
    fetch_result,      \* Pending, None, or the response returned
    failed,            \* auxiliary: the parsers whose run raised in run_all_parsers
    desc_soup,         \* markup handed to _extract_clean_description: meta content and tags
    desc_text,         \* its text argument
    desc_name,         \* its company_name argument
    desc_out,          \* Pending, None, or the description returned
    desc_step          \* auxiliary: the step that returned (0 before the call, 5: nothing found)

validVars == <<inn_in, valid_out>>
clsVars   == <<cls_company, cls_by, cls_labels, cls_again>>
mergeVars == <<all_results, merged_companies, merged_from, merged_twice, mpc>>
pipeVars  == <<ppc, phase, cur_companies, candidate, exported>>

argVars   == <<max_per_parser>>
natVars   == <<nat_company, nat_by, nat_out>>
fetchVars == <<fetch_by, fetch_max_retries, fetch_seen, fetch_waits, fetch_pc, fetch_result>>
histVars  == <<failed>>
descVars  == <<desc_soup, desc_text, desc_name, desc_out, desc_step>>

vars == <<validVars, clsVars, mergeVars, pipeVars, argVars, natVars, fetchVars, histVars, descVars>>

notValid == <<clsVars, mergeVars, pipeVars, argVars, natVars, fetchVars, histVars, descVars>>
notCls   == <<validVars, mergeVars, pipeVars, argVars, natVars, fetchVars, histVars, descVars>>
notMerge == <<validVars, clsVars, pipeVars, argVars, natVars, fetchVars, histVars, descVars>>
notPipe  == <<validVars, clsVars, argVars, natVars, fetchVars, histVars, descVars>>
notNat   == <<validVars, clsVars, mergeVars, pipeVars, argVars, fetchVars, histVars, descVars>>
notDesc  == <<validVars, clsVars, mergeVars, pipeVars, argVars, natVars, fetchVars, histVars>>
notFetch == <<validVars, clsVars, mergeVars, pipeVars, argVars, natVars, histVars, descVars>>

(***************************************************************************)
(* Python values                                                           *)
(***************************************************************************)
None == <<"None">>
NoneInt == -1

\* the text of a number for which str.isdigit() is true and int() raises
\* ValueError: digit characters that are not decimal digits
BadInt == -2

\* bool(v) of a str-or-None value
Truthy(v) == v # None /\ v # <<>>

Range(s) == {s[i] : i \in DOMAIN s}

\* dict.keys(), `key in dict`, dict.get(key, default)
Keys(company) == {company[i][1] : i \in DOMAIN company}
Has(company, key) == key \in Keys(company)
Get(company, key, default) ==
    IF Has(company, key)
    THEN company[CHOOSE i \in DOMAIN company : company[i][1] = key][2]
    ELSE default

\* str(v) of a str-or-None value: str(None) is the four characters 'None'
Str(v) == IF v = None THEN <<"N", "o", "n", "e">> ELSE v

(***************************************************************************)
(* Text.  A text is a sequence of words (the words of a name, a            *)
(* description or a category, the one word of a URL or of an OKVED code,   *)
(* the labels of a segment tag).  The tables below list, for the words of  *)
(* the model, what Python's `in`, startswith, lower and upper compute on   *)
(* the strings they stand for.  A word written "ru:..." is the             *)
(* transliteration of a Cyrillic word: "ru:marketing" and "marketing" are  *)
(* different strings.                                                      *)
(***************************************************************************)
\* needle \in SubstringsOf[w]: the keyword `needle` occurs inside the word w
\* (words that contain no keyword are left out)
SubstringsOf ==
    ("BTL" :> {"BTL"})
    @@ ("ru:moskva" :> {"ru:moskva"})
    @@ ("https://digital-lab.example" :> {"digital"})
    @@ ("russia" :> {"ru", "russia"})
    @@ ("ru:kazan'" :> {})
    @@ ("berlin" :> {})
    @@ ("+74951234567" :> {"+7"})
    @@ ("8(495)1234567" :> {"8("})
    @@ ("ru:suveniry" :> {"ru:suvenir"})
    @@ ("ru:agentstvo" :> {"ru:agentstv", "ru:agentstvo"})
    @@ ("ru:reklama" :> {"ru:reklam", "ru:reklama"})
    @@ ("ru:marketing" :> {"ru:marketing"})
    @@ ("digital" :> {"digital"})
    @@ ("ru:tirazh" :> {"ru:tirazh"})
    @@ ("https://www.ruward.ru/company/digital-lab" :> {"digital"})
    @@ ("https://www.ruward.ru/company/btl-promo" :> {"btl", "pr"})
    @@ ("/company/media-one" :> {"media"})
    @@ ("ru:Digital-agentstvo" :> {"ru:agentstv", "ru:agentstvo"})
    @@ ("ru:digital-agentstv" :> {"digital", "ru:agentstv"})
    @@ ("ru:digital-agentstvo" :> {"digital", "ru:agentstv", "ru:agentstvo"})
    @@ ("DIGITAL_AGENCY" :> {"AGENCY", "DIGITAL"})
    @@ ("FULL_CYCLE" :> {"FULL_CYCLE"})
    @@ ("SOUVENIR" :> {"SOUVENIR"})
    @@ ("COMM_GROUP" :> {"COMM_GROUP"})
    @@ ("OTHER" :> {"OTHER"})
    @@ ("ru:digital-agentstvo," :> {"digital", "ru:agentstv", "ru:agentstvo"})
    @@ ("ru:brendinge" :> {"ru:brending"})
    @@ ("ru:digital-kommunikatsiyakh" :> {"digital", "ru:kommunikats", "ru:kommunikatsi"})
    @@ ("CREATIVE_AGENCY" :> {"AGENCY", "CREATIVE"})
    @@ ("DIGITAL" :> {"DIGITAL"})
    @@ ("ru:Performance-agentstvo," :> {"ru:agentstv", "ru:agentstvo"})
    @@ ("ru:reklame" :> {"ru:reklam"})
    @@ ("PERFORMANCE_AGENCY" :> {"AGENCY"})
    @@ ("ru:BTL-agentstvo" :> {"BTL", "ru:agentstv", "ru:agentstvo"})
    @@ ("ru:BTL-agentstv" :> {"BTL", "ru:agentstv"})
    @@ ("ru:BTL-agentstvo," :> {"BTL", "ru:agentstv", "ru:agentstvo"})
    @@ ("ru:promo-aktsij" :> {"ru:promo", "ru:promo-akts"})
    @@ ("ru:iventov" :> {"ru:ivent"})
    @@ ("BTL_AGENCY" :> {"AGENCY", "BTL"})
    @@ ("EVENTS" :> {"EVENT"})
    @@ ("ru:PR-agentstvo" :> {"PR", "ru:agentstv", "ru:agentstvo"})
    @@ ("ru:PR-agentstv" :> {"PR", "ru:agentstv"})
    @@ ("ru:PR-agentstvo," :> {"PR", "ru:agentstv", "ru:agentstvo"})
    @@ ("PR_AGENCY" :> {"AGENCY", "PR"})
    @@ ("https://pr-arch.ru" :> {"pr"})
    @@ ("ruward_prarch_2024" :> {"pr"})
    @@ ("ru:performance-marketinge" :> {"ru:marketing"})
    @@ ("ru:agentstv" :> {"ru:agentstv"})
    @@ ("ru:agentstvo," :> {"ru:agentstv", "ru:agentstvo"})
    @@ ("MEDIA_AGENCY" :> {"AGENCY", "MEDIA"})
    @@ ("ru:Event-agentstvo" :> {"ru:agentstv", "ru:agentstvo"})
    @@ ("ru:biznes-iventakh" :> {"ru:ivent"})
    @@ ("EVENT_AGENCY" :> {"AGENCY", "EVENT"})
    @@ ("btl" :> {"btl"})
    @@ ("ru:promo" :> {"ru:promo"})
    @@ ("digital_agency" :> {"agency", "digital"})
    @@ ("ru:kreativnoe" :> {"ru:kreativ", "ru:kreativn"})
    @@ ("creative_agency" :> {"agency", "creative"})
    @@ ("ru:performance-agentstvo," :> {"ru:agentstv", "ru:agentstvo"})
    @@ ("performance_agency" :> {"agency"})
    @@ ("ru:btl-agentstvo" :> {"btl", "ru:agentstv", "ru:agentstvo"})
    @@ ("ru:btl-agentstv" :> {"btl", "ru:agentstv"})
    @@ ("ru:btl-agentstvo," :> {"btl", "ru:agentstv", "ru:agentstvo"})
    @@ ("btl_agency" :> {"agency", "btl"})
    @@ ("events" :> {"event"})
    @@ ("ru:pr-agentstvo" :> {"pr", "ru:agentstv", "ru:agentstvo"})
    @@ ("ru:pr-agentstv" :> {"pr", "ru:agentstv"})
    @@ ("ru:pr-agentstvo," :> {"pr", "ru:agentstv", "ru:agentstvo"})
    @@ ("pr_agency" :> {"agency", "pr"})
    @@ ("ru:digital-proizvodstvo" :> {"digital", "ru:proizvodstvo"})
    @@ ("ru:digital-proizvodstvo," :> {"digital", "ru:proizvodstvo"})
    @@ ("ru:reklamnoe" :> {"ru:reklam", "ru:reklamn"})
    @@ ("media_agency" :> {"agency", "media"})
    @@ ("ru:event-agentstvo" :> {"event", "ru:agentstv", "ru:agentstvo"})
    @@ ("event_agency" :> {"agency", "event"})
    @@ ("ru:uslugi" :> {"ru:uslugi"})
    @@ ("ru:okazyvaet" :> {"ru:okazyvaet"})
    @@ ("ru:plyus" :> {"ru:plyus"})
    @@ ("ru:prodazha" :> {"ru:prodazha"})
    @@ ("ru:organizatsiya" :> {"ru:organizatsiya"})
    @@ ("ru:uslugi:" :> {"ru:uslugi"})
    @@ ("ru:prodazha." :> {"ru:prodazha"})
    @@ ("ru:plyus." :> {"ru:plyus"})
    @@ ("about" :> {"about"})
    @@ ("company-info" :> {"info"})
    @@ ("ru:ooo" :> {"ru:ooo"})
    @@ ("ru:akme" :> {"ru:akme"})
    @@ ("ru:inn" :> {"ru:inn"})
    @@ ("ru:akme." :> {"ru:akme"})
    @@ ("ru:zanimaetsya:" :> {"ru:zanimaetsya"})
    @@ ("ru:spetsializatsiya:" :> {"ru:spetsializatsiya"})
    @@ ("ru:zanimaetsya" :> {"ru:zanimaetsya"})
    @@ ("ru:spetsializatsiya" :> {"ru:spetsializatsiya"})
    @@ ("ru:Digital-proizvodstvo" :> {"ru:proizvodstvo"})
    @@ ("ru:Digital-proizvodstvo," :> {"ru:proizvodstvo"})

\* <<w1, w2, needle>>: the keyword `needle`, which has a space, occurs in
\* "w1 w2" across the space
PhrasesOf ==
    { <<"ru:polnyj", "ru:tsikl", "ru:polnyj tsikl">>,
      <<"ru:polnyj", "ru:tsikla", "ru:polnyj tsikl">> }

\* str.lower() of a word (words that are their own lower case are left out)
LowerOf ==
    ("BTL" :> "btl")
    @@ ("ru:Moskva" :> "ru:moskva")
    @@ ("Russia" :> "russia")
    @@ ("ru:Kazan'" :> "ru:kazan'")
    @@ ("Berlin" :> "berlin")
    @@ ("ru:Promo" :> "ru:promo")
    @@ ("ru:Stroj" :> "ru:stroj")
    @@ ("None" :> "none")
    @@ ("AGIMA" :> "agima")
    @@ ("ru:Digital-agentstvo" :> "ru:digital-agentstvo")
    @@ ("ru:TOP-30" :> "ru:top-30")
    @@ ("ru:Krupnejshee" :> "ru:krupnejshee")
    @@ ("ru:Rossii," :> "ru:rossii,")
    @@ ("DIGITAL_AGENCY" :> "digital_agency")
    @@ ("FULL_CYCLE" :> "full_cycle")
    @@ ("Red" :> "red")
    @@ ("Keds" :> "keds")
    @@ ("ru:Kreativnoe" :> "ru:kreativnoe")
    @@ ("CREATIVE_AGENCY" :> "creative_agency")
    @@ ("DIGITAL" :> "digital")
    @@ ("Ingate" :> "ingate")
    @@ ("ru:Performance-agentstvo," :> "ru:performance-agentstvo,")
    @@ ("PERFORMANCE_AGENCY" :> "performance_agency")
    @@ ("ANALYTICS" :> "analytics")
    @@ ("ru:Gemotest" :> "ru:gemotest")
    @@ ("ru:BTL-agentstvo" :> "ru:btl-agentstvo")
    @@ ("ru:TOP-20" :> "ru:top-20")
    @@ ("ru:BTL-agentstv" :> "ru:btl-agentstv")
    @@ ("ru:Vedushchee" :> "ru:vedushchee")
    @@ ("ru:BTL-agentstvo," :> "ru:btl-agentstvo,")
    @@ ("BTL_AGENCY" :> "btl_agency")
    @@ ("EVENTS" :> "events")
    @@ ("ru:Sol'" :> "ru:sol'")
    @@ ("ru:PR-agentstvo" :> "ru:pr-agentstvo")
    @@ ("ru:TOP-15" :> "ru:top-15")
    @@ ("ru:PR-agentstv" :> "ru:pr-agentstv")
    @@ ("ru:PR-agentstvo," :> "ru:pr-agentstvo,")
    @@ ("IT" :> "it")
    @@ ("PR_AGENCY" :> "pr_agency")
    @@ ("IT_TECH" :> "it_tech")
    @@ ("ru:PiArkhitektory" :> "ru:piarkhitektory")
    @@ ("B2B" :> "b2b")
    @@ ("INDUSTRIAL" :> "industrial")
    @@ ("ru:KROS" :> "ru:kros")
    @@ ("ru:Digital-proizvodstvo" :> "ru:digital-proizvodstvo")
    @@ ("ru:Digital-proizvodstvo," :> "ru:digital-proizvodstvo,")
    @@ ("WEB_DEVELOPMENT" :> "web_development")
    @@ ("INTEGRATION" :> "integration")
    @@ ("ru:Reklamnoe" :> "ru:reklamnoe")
    @@ ("ru:\"Farpost\"" :> "ru:\"farpost\"")
    @@ ("ru:Spetsializatsiya" :> "ru:spetsializatsiya")
    @@ ("ECOMMERCE" :> "ecommerce")
    @@ ("PERFORMANCE" :> "performance")
    @@ ("ru:Imperial" :> "ru:imperial")
    @@ ("ru:Medijnoe" :> "ru:medijnoe")
    @@ ("ru:TOP-10" :> "ru:top-10")
    @@ ("FMCG" :> "fmcg")
    @@ ("MEDIA_AGENCY" :> "media_agency")
    @@ ("ru:ArtKom" :> "ru:artkom")
    @@ ("ru:Event-agentstvo" :> "ru:event-agentstvo")
    @@ ("EVENT_AGENCY" :> "event_agency")
    @@ ("BUSINESS" :> "business")
    @@ ("ru:Okazyvaet" :> "ru:okazyvaet")
    @@ ("ru:OOO" :> "ru:ooo")
    @@ ("ru:Akme" :> "ru:akme")
    @@ ("ru:INN" :> "ru:inn")
    @@ ("ru:Akme." :> "ru:akme.")
    @@ ("ru:Kontakty" :> "ru:kontakty")
    @@ ("ru:Zanimaetsya:" :> "ru:zanimaetsya:")
    @@ ("ru:Osnovnye" :> "ru:osnovnye")
    @@ ("ru:Spetsializatsiya:" :> "ru:spetsializatsiya:")
    @@ ("ru:Zanimaetsya" :> "ru:zanimaetsya")

\* str.upper() of the keywords of the catalog filter
UpperOf ==
    ("ru:agentstvo" :> "ru:AGENTSTVO")
    @@ ("agency" :> "AGENCY")
    @@ ("digital" :> "DIGITAL")
    @@ ("pr" :> "PR")
    @@ ("btl" :> "BTL")
    @@ ("event" :> "EVENT")
    @@ ("ru:media" :> "ru:MEDIA")
    @@ ("media" :> "MEDIA")
    @@ ("ru:kreativ" :> "ru:KREATIV")
    @@ ("creative" :> "CREATIVE")
    @@ ("ru:marketing" :> "ru:MARKETING")
    @@ ("marketing" :> "MARKETING")
    @@ ("ru:reklama" :> "ru:REKLAMA")
    @@ ("advertising" :> "ADVERTISING")
    @@ ("ru:kommunikatsi" :> "ru:KOMMUNIKATSI")
    @@ ("communication" :> "COMMUNICATION")

\* p \in PrefixesOf[w]: w.startswith(p)
PrefixesOf ==
    ("http://acme.example" :> {"http"})
    @@ ("https://digital-lab.example" :> {"http"})
    @@ ("https://bolt.example" :> {"http"})
    @@ ("https://www.ruward.ru/company/acme" :> {"http"})
    @@ ("https://www.ruward.ru/company/digital-lab" :> {"http"})
    @@ ("https://www.ruward.ru/company/btl-promo" :> {"http"})
    @@ ("/company/media-one" :> {"/"})
    @@ ("73.11" :> {"73.11"})
    @@ ("73.12" :> {"73.12"})
    @@ ("18.12" :> {"18.12"})
    @@ ("74.20" :> {"74.20"})
    @@ ("82.30" :> {"82.30"})
    @@ ("https://agima.ru" :> {"http"})
    @@ ("https://redkeds.ru" :> {"http"})
    @@ ("https://ingate.ru" :> {"http"})
    @@ ("https://gemotest.ru" :> {"http"})
    @@ ("https://sol.ru" :> {"http"})
    @@ ("https://pr-arch.ru" :> {"http"})
    @@ ("https://cros.ru" :> {"http"})
    @@ ("https://farpost.ru" :> {"http"})
    @@ ("https://imperial.ru" :> {"http"})
    @@ ("https://artcom.ru" :> {"http"})
    @@ ("ru:akme" :> {"ru:akme"})
    @@ ("ru:akme." :> {"ru:akme"})
    @@ ("ru:plyus" :> {"ru:plyus"})
    @@ ("ru:plyus." :> {"ru:plyus"})
    @@ ("ru:uslugi" :> {"ru:uslugi"})
    @@ ("ru:uslugi:" :> {"ru:uslugi"})

\* needle in text
contains(text, needle) ==
    \/ \E i \in DOMAIN text :
           text[i] \in DOMAIN SubstringsOf /\ needle \in SubstringsOf[text[i]]
    \/ \E i \in 1..(Len(text) - 1) : <<text[i], text[i + 1], needle>> \in PhrasesOf

\* any(keyword in text for keyword in keywords)
any_in(keywords, text) == \E keyword \in keywords : contains(text, keyword)

\* text.lower(), text.upper()
lower(text) == [i \in DOMAIN text |-> IF text[i] \in DOMAIN LowerOf THEN LowerOf[text[i]] ELSE text[i]]
upper(text) == [i \in DOMAIN text |-> IF text[i] \in DOMAIN UpperOf THEN UpperOf[text[i]] ELSE text[i]]

\* text.startswith(prefix), for a text of at most one word
startswith(text, prefix) ==
    /\ text # <<>>
    /\ text[1] \in DOMAIN PrefixesOf
    /\ prefix \in PrefixesOf[text[1]]

\* f"{a} {b}"
joined(a, b) == a \o b

(***************************************************************************)
(* Keyword lists of the classifiers and of the relevance filters           *)
(***************************************************************************)
\* listorg_parser.py 501: btl_keywords
listorg_segment_btl_keywords ==
    { "btl", "ru:promo", "ru:ivent", "event", "ru:merchandajzing",
      "ru:brend-aktiv" }

\* listorg_parser.py 506: souvenir_keywords
listorg_segment_souvenir_keywords ==
    { "ru:suvenir", "ru:podar", "ru:poligraf", "ru:pechat", "ru:brendirovan" }

\* listorg_parser.py 511: full_cycle_keywords
listorg_segment_full_cycle_keywords ==
    { "ru:polnyj tsikl", "full cycle", "ru:kompleksn", "ru:integrirovan" }

\* listorg_parser.py 516: comm_keywords
listorg_segment_comm_keywords ==
    { "ru:kommunikats", "ru:komm grup", "ru:agentstv", "ru:reklamn",
      "ru:marketingov", "pr" }

\* fns_parser.py 426: btl_keywords
fns_segment_btl_keywords ==
    { "btl", "ru:promo", "ru:ivent", "event", "ru:merchandajzing",
      "ru:brend-aktiv" }

\* fns_parser.py 430: souvenir_keywords
fns_segment_souvenir_keywords ==
    { "ru:suvenir", "ru:podar", "ru:poligraf", "ru:pechat", "ru:brendirovan" }

\* fns_parser.py 434: full_cycle_keywords
fns_segment_full_cycle_keywords ==
    { "ru:polnyj tsikl", "full cycle", "ru:kompleksn", "ru:integrirovan" }

\* fns_parser.py 438: comm_keywords
fns_segment_comm_keywords ==
    { "ru:kommunikats", "ru:komm grup", "ru:agentstv", "ru:reklamn",
      "ru:marketingov", "pr" }

\* rusprofile_parser.py 274: btl_keywords
rusprofile_segment_btl_keywords ==
    { "btl", "ru:promo", "ru:ivent", "event", "ru:merchandajzing",
      "ru:brend-aktiv" }

\* rusprofile_parser.py 279: souvenir_keywords
rusprofile_segment_souvenir_keywords ==
    { "ru:suvenir", "ru:podar", "ru:poligraf", "ru:pechat", "ru:brendirovan" }

\* rusprofile_parser.py 284: full_cycle_keywords
rusprofile_segment_full_cycle_keywords ==
    { "ru:polnyj tsikl", "full cycle", "ru:kompleksn", "ru:integrirovan" }

\* rusprofile_parser.py 289: comm_keywords
rusprofile_segment_comm_keywords ==
    { "ru:kommunikats", "ru:komm grup", "ru:agentstv", "ru:reklamn",
      "ru:marketingov", "pr" }

\* parser.py 437-441: btl_keywords
legacy_segment_btl_keywords ==
    { "btl", "ru:promo", "ru:ivent", "ru:merchandajzing", "ru:brend-aktiv",
      "ru:brend aktivats", "event", "ru:promoakts", "ru:promo-akts",
      "live marketing", "field marketing", "ru:torgovyj marketing" }

\* parser.py 446-450: souvenir_keywords
legacy_segment_souvenir_keywords ==
    { "ru:suvenir", "ru:promoprodukts", "ru:podar", "ru:reklamn",
      "ru:pechat", "ru:poligraf", "ru:tirazh", "ru:kalendar",
      "ru:brendirovan", "ru:korporativn", "ru:promo-suvenir",
      "ru:biznes-suvenir" }

\* parser.py 455-459: full_cycle_keywords
legacy_segment_full_cycle_keywords ==
    { "ru:polnyj tsikl", "full cycle", "ru:kompleksn", "ru:integrirovan",
      "full-service", "fullservice", "ru:integrator",
      "ru:kompleksnye resheniya", "360deg", "end-to-end" }

\* parser.py 464-468: comm_group_keywords
legacy_segment_comm_group_keywords ==
    { "ru:kommunikatsi", "ru:komm grup", "ru:agentstv", "ru:reklamn",
      "ru:marketingov", "pr", "public relations", "digital", "ru:didzhital",
      "ru:kreativn", "ru:media", "smm", "ru:sotsial'nye seti",
      "ru:kontent-marketing" }

\* parser.py 473-483: okved_codes, in the order of the dict
legacy_okved_codes ==
    << <<"73.11", "BTL">>,
       <<"73.12", "COMM_GROUP">>,
       <<"18.12", "SOUVENIR">>,
       <<"74.20", "FULL_CYCLE">>,
       <<"90.03", "BTL">>,
       <<"74.10", "COMM_GROUP">>,
       <<"74.30", "BTL">>,
       <<"58.11", "SOUVENIR">>,
       <<"58.19", "SOUVENIR">> >>

\* listorg_parser.py 135: relevant_tags
listorg_profile_relevant_tags ==
    { "BTL", "SOUVENIR", "FULL_CYCLE", "COMM_GROUP" }

\* listorg_parser.py 141-146: btl_keywords
listorg_profile_btl_keywords ==
    { "btl", "ru:promo", "ru:ivent", "event", "ru:merchandajzing",
      "ru:merchendajzing", "ru:brend-aktiv", "ru:brend aktivats",
      "ru:promoakts", "ru:zhivoj marketing", "field marketing",
      "live marketing", "ru:torgovyj marketing", "ru:promouter",
      "ru:promo-grupp", "ru:aktivats", "ru:sehmpling" }

\* listorg_parser.py 148-152: souvenir_keywords
listorg_profile_souvenir_keywords ==
    { "ru:suvenir", "ru:podar", "ru:biznes-suvenir", "ru:korporativn",
      "ru:promoprodukts", "ru:poligraf", "ru:pechat", "ru:tirazh",
      "ru:kalendar", "ru:brendirovan", "ru:reklamn", "ru:premial'n",
      "ru:promo-suvenir" }

\* listorg_parser.py 154-157: full_cycle_keywords
listorg_profile_full_cycle_keywords ==
    { "ru:polnyj tsikl", "full cycle", "full-service", "ru:kompleksn",
      "ru:integrirovan", "360deg", "end-to-end", "ru:integrator" }

\* listorg_parser.py 159-163: comm_keywords
listorg_profile_comm_keywords ==
    { "ru:kommunikats", "ru:komm grup", "ru:agentstv", "ru:reklamn",
      "ru:marketingov", "pr", "public relations", "digital", "ru:didzhital",
      "ru:kreativn", "ru:media", "smm", "ru:kontent", "ru:brending",
      "ru:strategi" }

\* variant of relevant_okveds without the printing code 18.12
listorg_profile_relevant_okveds_without_printing ==
    { "73.11", "73.12", "74.10", "74.20", "90.03", "58.11", "58.19" }

\* listorg_parser.py 170-172: relevant_okveds
listorg_profile_relevant_okveds ==
    { "73.11", "73.12", "18.12", "74.10", "74.20", "90.03", "58.11", "58.19" }

\* fns_parser.py 389-404: relevant_keywords
fns_profile_relevant_keywords ==
    { "btl", "ru:promo", "ru:ivent", "event", "ru:merchandajzing",
      "ru:merchendajzing", "ru:brend-aktiv", "ru:brend aktivats",
      "ru:promoakts", "ru:zhivoj marketing", "field marketing",
      "live marketing", "ru:torgovyj marketing", "ru:promouter",
      "ru:promo-grupp", "ru:aktivats", "ru:sehmpling", "ru:agentstv",
      "ru:reklamn", "ru:marketingov", "ru:suvenir", "ru:podar",
      "ru:biznes-suvenir", "ru:korporativn", "ru:promoprodukts",
      "ru:poligraf", "ru:pechat", "ru:tirazh", "ru:kalendar",
      "ru:brendirovan", "ru:premial'n", "ru:promo-suvenir", "ru:poligrafiya",
      "ru:poligrafichesk", "ru:tipograf", "ru:pechatn", "ru:kommunikats",
      "ru:komm grup", "pr", "public relations", "digital", "ru:didzhital",
      "ru:kreativn", "ru:media", "smm", "ru:kontent", "ru:brending",
      "ru:strategi", "ru:polnyj tsikl", "full cycle", "full-service",
      "ru:kompleksn", "ru:integrirovan", "360deg", "end-to-end",
      "ru:integrator" }

\* fns_parser.py 409-412: relevant_okveds
fns_profile_relevant_okveds ==
    { "73.11", "73.12", "18.12", "74.10", "74.20", "90.03", "58.11", "58.19",
      "73.20", "74.30", "82.30" }

\* ruward_parser.py 581-585: relevant_keywords
ruward_relevant_keywords ==
    { "ru:agentstvo", "agency", "digital", "pr", "btl", "event", "ru:media",
      "media", "ru:kreativ", "creative", "ru:marketing", "marketing",
      "ru:reklama", "advertising", "ru:kommunikatsi", "communication" }

(***************************************************************************)
(* Segment classifiers.  The result is the list of labels; where the code  *)
(* returns '|'.join(segments) the text's words are the labels.             *)
(***************************************************************************)
\* variant: no fallback label when no cluster matches
listorg_determine_segment_no_fallback(company_data) ==
    LET name  == lower(Get(company_data, "name", <<>>))
        desc  == lower(Get(company_data, "description", <<>>))
        okved == Get(company_data, "okved_main", <<>>)
        text  == joined(name, desc)
        btl        == IF any_in(listorg_segment_btl_keywords, text) \/ startswith(okved, "73.11")
                      THEN <<"BTL">> ELSE <<>>
        souvenir   == IF any_in(listorg_segment_souvenir_keywords, text) \/ startswith(okved, "18.12")
                      THEN <<"SOUVENIR">> ELSE <<>>
        full_cycle == IF any_in(listorg_segment_full_cycle_keywords, text)
                      THEN <<"FULL_CYCLE">> ELSE <<>>
        comm       == IF any_in(listorg_segment_comm_keywords, text) \/ startswith(okved, "73.12")
                      THEN <<"COMM_GROUP">> ELSE <<>>
    IN  btl \o souvenir \o full_cycle \o comm

\* listorg_parser.py 491-520
listorg_determine_segment(company_data) ==
    LET name  == lower(Get(company_data, "name", <<>>))
        desc  == lower(Get(company_data, "description", <<>>))
        okved == Get(company_data, "okved_main", <<>>)
        text  == joined(name, desc)
        btl        == IF any_in(listorg_segment_btl_keywords, text) \/ startswith(okved, "73.11")
                      THEN <<"BTL">> ELSE <<>>
        souvenir   == IF any_in(listorg_segment_souvenir_keywords, text) \/ startswith(okved, "18.12")
                      THEN <<"SOUVENIR">> ELSE <<>>
        full_cycle == IF any_in(listorg_segment_full_cycle_keywords, text)
                      THEN <<"FULL_CYCLE">> ELSE <<>>
        comm       == IF any_in(listorg_segment_comm_keywords, text) \/ startswith(okved, "73.12")
                      THEN <<"COMM_GROUP">> ELSE <<>>
        segments   == btl \o souvenir \o full_cycle \o comm
    IN  IF segments # <<>> THEN segments ELSE <<"OTHER">>

\* fns_parser.py 419-442: only the name is searched
fns_determine_segment(company_data) ==
    LET name  == lower(Get(company_data, "name", <<>>))
        okved == Get(company_data, "okved_main", <<>>)
        text  == name
        btl        == IF any_in(fns_segment_btl_keywords, text) \/ startswith(okved, "73.11")
                      THEN <<"BTL">> ELSE <<>>
        souvenir   == IF any_in(fns_segment_souvenir_keywords, text) \/ startswith(okved, "18.12")
                      THEN <<"SOUVENIR">> ELSE <<>>
        full_cycle == IF any_in(fns_segment_full_cycle_keywords, text)
                      THEN <<"FULL_CYCLE">> ELSE <<>>
        comm       == IF any_in(fns_segment_comm_keywords, text) \/ startswith(okved, "73.12")
                      THEN <<"COMM_GROUP">> ELSE <<>>
        segments   == btl \o souvenir \o full_cycle \o comm
    IN  IF segments # <<>> THEN segments ELSE <<"OTHER">>

\* rusprofile_parser.py 264-293
rusprofile_determine_segment(company_data) ==
    LET name  == lower(Get(company_data, "name", <<>>))
        desc  == lower(Get(company_data, "description", <<>>))
        okved == Get(company_data, "okved_main", <<>>)
        text  == joined(name, desc)
        btl        == IF any_in(rusprofile_segment_btl_keywords, text) \/ startswith(okved, "73.11")
                      THEN <<"BTL">> ELSE <<>>
        souvenir   == IF any_in(rusprofile_segment_souvenir_keywords, text) \/ startswith(okved, "18.12")
                      THEN <<"SOUVENIR">> ELSE <<>>
        full_cycle == IF any_in(rusprofile_segment_full_cycle_keywords, text)
                      THEN <<"FULL_CYCLE">> ELSE <<>>
        comm       == IF any_in(rusprofile_segment_comm_keywords, text) \/ startswith(okved, "73.12")
                      THEN <<"COMM_GROUP">> ELSE <<>>
        segments   == btl \o souvenir \o full_cycle \o comm
    IN  IF segments # <<>> THEN segments ELSE <<"OTHER">>

\* parser.py 485-488: the labels of the OKVED table, each appended unless present
RECURSIVE legacy_okved_segments(_, _, _)
legacy_okved_segments(codes, okved, segments) ==
    IF codes = <<>> THEN segments
    ELSE LET code    == Head(codes)[1]
             segment == Head(codes)[2]
         IN  legacy_okved_segments(
                 Tail(codes), okved,
                 IF startswith(okved, code) /\ segment \notin Range(segments)
                 THEN Append(segments, segment) ELSE segments)

\* parser.py 424-495 (the stand-alone parser): returns the list of labels
legacy_determine_segment(company_data) ==
    LET okved       == Get(company_data, "okved_main", <<>>)
        description == lower(Get(company_data, "description", <<>>))
        name        == lower(Get(company_data, "name", <<>>))
        site        == lower(Get(company_data, "site", <<>>))
        text_to_check == joined(joined(name, description), site)
        btl        == IF any_in(legacy_segment_btl_keywords, text_to_check)
                      THEN <<"BTL">> ELSE <<>>
        souvenir   == IF any_in(legacy_segment_souvenir_keywords, text_to_check)
                      THEN <<"SOUVENIR">> ELSE <<>>
        full_cycle == IF any_in(legacy_segment_full_cycle_keywords, text_to_check)
                      THEN <<"FULL_CYCLE">> ELSE <<>>
        comm       == IF any_in(legacy_segment_comm_group_keywords, text_to_check)
                      THEN <<"COMM_GROUP">> ELSE <<>>
        by_keyword == btl \o souvenir \o full_cycle \o comm
        by_okved   == legacy_okved_segments(legacy_okved_codes, okved, by_keyword)
        segments   == IF by_okved = <<>>
                         /\ (contains(text_to_check, "ru:reklam") \/ contains(text_to_check, "ru:marketing"))
                      THEN <<"COMM_GROUP">> ELSE by_okved
    IN  IF segments # <<>> THEN segments ELSE <<"OTHER">>

(***************************************************************************)
(* Identifier validity test (inlined in the filters)                       *)
(***************************************************************************)
AsciiDigits == {"0", "1", "2", "3", "4", "5", "6", "7", "8", "9"}

\* Characters for which str.isdigit() is true: the decimal digits and also
\* the digit-valued characters that are not decimal digits, such as
\* U+00B2 SUPERSCRIPT TWO (written "sup2").
IsDigitChar(c) == c \in AsciiDigits \cup {"sup2"}

\* str.isdigit(): non-empty and every character is a digit character
isdigit(s) == s # <<>> /\ \A i \in DOMAIN s : IsDigitChar(s[i])

\* fns_parser.py 340-346: inn present and len in [10, 12] and isdigit
fns_inn_valid(inn) ==
    IF ~Truthy(inn) THEN FALSE
    ELSE LET inn_str == Str(inn)
         IN  Len(inn_str) \in {10, 12} /\ isdigit(inn_str)

\* base_parser.py 83-87: the same test as written in _is_russian_company
base_inn_valid(inn) ==
    IF ~Truthy(inn) THEN FALSE
    ELSE LET inn_str == Str(inn)
         IN  (Len(inn_str) = 10 /\ isdigit(inn_str)) \/ (Len(inn_str) = 12 /\ isdigit(inn_str))

(***************************************************************************)
(* Dicts under construction                                                *)
(***************************************************************************)
\* company_data[key] = value
Set(company_data, key, value) ==
    IF Has(company_data, key)
    THEN [i \in DOMAIN company_data |->
             IF company_data[i][1] = key THEN <<key, value>> ELSE company_data[i]]
    ELSE Append(company_data, <<key, value>>)

\* a field that is not there (a key a dict lacks, an element a document lacks)
Absent == <<"(absent)">>

\* the item <<key, v>> of a dict, or nothing when the key is absent
Field(key, v) == IF v = Absent THEN <<>> ELSE <<<<key, v>>>>

\* bool(v) of an int-or-None value
TruthyInt(v) == v # NoneInt /\ v # 0

\* str.strip() of a string of characters
RECURSIVE lstrip(_)
lstrip(s) == IF s # <<>> /\ Head(s) = " " THEN lstrip(Tail(s)) ELSE s
RECURSIVE rstrip(_)
rstrip(s) == IF s # <<>> /\ s[Len(s)] = " " THEN rstrip(SubSeq(s, 1, Len(s) - 1)) ELSE s
strip(s) == rstrip(lstrip(s))

(***************************************************************************)
(* Directory adapters: list_org and rusprofile.  A page is what the        *)
(* extractors find in it: ok (the request succeeded), url_path, name (the  *)
(* h1 text), inn_digits (the run of digits at the first place an INN       *)
(* pattern can match), revenues (the figures the revenue patterns match,   *)
(* in pattern order), okved, site, description.  The pages of the model    *)
(* have no region, contact or staff text.                                  *)
(***************************************************************************)
\* base_parser.py 97-100: the body is `pass`, the call returns None and
\* `not None` is true
base_is_relevant_profile(company_data) == FALSE

\* base_parser.py 81-95: a valid inn, then a regional word in the region,
\* then True by default
base_russian_indicators ==
    { "ru:rossiya", "ru:rf", "ru:moskva", "ru:sankt-peterburg", "ru:oblast'",
      "ru:kraj", "ru:respublika" }

base_is_russian_company(company_data) ==
    IF base_inn_valid(Get(company_data, "inn", None)) THEN TRUE
    ELSE IF any_in(base_russian_indicators, lower(Get(company_data, "region", <<>>)))
    THEN TRUE
    ELSE TRUE

\* listorg_parser.py 108-113
listorg_russian_indicators ==
    { "ru:rossiya", "ru:rf", "ru", "russia", "ru:moskva", "ru:sankt-peterburg",
      "ru:spb", "moscow", "st. petersburg", "ru:oblast'", "ru:kraj",
      "ru:respublika", "ru:resp.", "ru:g. ", "ru:gorod ", "ru:ul.", "ru:prospekt",
      "ru:bul'var" }

\* variant: a record that shows no sign of being Russian is not Russian
listorg_is_russian_company_strict(company_data) ==
    IF base_inn_valid(Get(company_data, "inn", None)) THEN TRUE
    ELSE IF any_in(listorg_russian_indicators,
                   lower(Get(company_data, "region", <<>>)))
    THEN TRUE
    ELSE IF Truthy(Get(company_data, "okved_main", None)) THEN TRUE
    ELSE LET contacts == lower(Get(company_data, "contacts", <<>>))
         IN  IF contains(contacts, "+7") \/ contains(contacts, "8(") THEN TRUE
             ELSE FALSE

\* listorg_parser.py 100-126: a valid inn, a regional word in the region, an
\* industry code, a Russian phone prefix in the contacts, then True anyway
listorg_is_russian_company(company_data) ==
    IF base_inn_valid(Get(company_data, "inn", None)) THEN TRUE
    ELSE IF any_in(listorg_russian_indicators,
                   lower(Get(company_data, "region", <<>>)))
    THEN TRUE
    ELSE IF Truthy(Get(company_data, "okved_main", None)) THEN TRUE
    ELSE LET contacts == lower(Get(company_data, "contacts", <<>>))
         IN  IF contains(contacts, "+7") \/ contains(contacts, "8(") THEN TRUE
             ELSE TRUE

\* listorg_parser.py 128-177
listorg_is_relevant_profile(company_data) ==
    LET name        == lower(Get(company_data, "name", <<>>))
        description == lower(Get(company_data, "description", <<>>))
        okved       == Get(company_data, "okved_main", <<>>)
        segment_tag == Get(company_data, "segment_tag", <<>>)
        text_to_check == joined(name, description)
        all_keywords  == listorg_profile_btl_keywords \cup listorg_profile_souvenir_keywords
                           \cup listorg_profile_full_cycle_keywords \cup listorg_profile_comm_keywords
    IN  \/ any_in(listorg_profile_relevant_tags, segment_tag)
        \/ any_in(all_keywords, text_to_check)
        \/ \E code \in listorg_profile_relevant_okveds : startswith(okved, code)

\* listorg_parser.py 179-199: the first figure of at least 200 million
RECURSIVE listorg_extract_revenue(_)
listorg_extract_revenue(revenues) ==
    IF revenues = <<>> THEN NoneInt
    ELSE IF Head(revenues) >= 200000000 THEN Head(revenues)
    ELSE listorg_extract_revenue(Tail(revenues))

\* listorg_parser.py 399-410: (\d{10}|\d{12}) takes the first ten digits of
\* the run, the other patterns take ten digits
listorg_extract_inn(inn_digits) ==
    IF Len(inn_digits) >= 10 THEN SubSeq(inn_digits, 1, 10) ELSE None

\* listorg_parser.py 360-489
listorg_parse_company_page(page) ==
    LET base == << <<"inn", None>>, <<"name", None>>, <<"revenue_year", 2023>>,
                   <<"revenue", NoneInt>>, <<"segment_tag", None>>, <<"okved_main", None>>,
                   <<"employees", NoneInt>>, <<"site", None>>, <<"description", None>>,
                   <<"region", None>>, <<"contacts", None>>, <<"rating_ref", page.url_path>>,
                   <<"source", <<"list_org">>>> >>
        named   == IF page.name # <<>> THEN Set(base, "name", page.name) ELSE base
        inn     == listorg_extract_inn(page.inn_digits)
        revenue == listorg_extract_revenue(page.revenues)
        with_inn == Set(Set(named, "inn", inn), "revenue", revenue)
        with_okved == IF page.okved # <<>> THEN Set(with_inn, "okved_main", page.okved) ELSE with_inn
        with_site == IF page.site # <<>> /\ ~contains(page.site, "list-org")
                     THEN Set(with_okved, "site", page.site) ELSE with_okved
        with_desc == IF page.description # <<>>
                     THEN Set(with_site, "description", page.description) ELSE with_site
        company_data == Set(with_desc, "segment_tag", listorg_determine_segment(with_desc))
    IN  IF ~page.ok THEN None
        ELSE IF ~Truthy(Get(named, "name", None)) THEN None
        ELSE IF ~Truthy(inn) THEN None
        ELSE IF ~TruthyInt(revenue) THEN None
        ELSE IF ~listorg_is_russian_company(with_inn) THEN None
        ELSE IF ~listorg_is_relevant_profile(company_data) THEN None
        ELSE company_data

\* rusprofile_parser.py 170-206: the first figure of at least 200 million
RECURSIVE rusprofile_extract_revenue(_)
rusprofile_extract_revenue(revenues) ==
    IF revenues = <<>> THEN NoneInt
    ELSE IF Head(revenues) >= 200000000 THEN Head(revenues)
    ELSE rusprofile_extract_revenue(Tail(revenues))

\* rusprofile_parser.py 105-125: every pattern takes ten digits
rusprofile_extract_inn(inn_digits) ==
    IF Len(inn_digits) >= 10 THEN SubSeq(inn_digits, 1, 10) ELSE None

\* rusprofile_parser.py 65-168
rusprofile_parse_company_page(page) ==
    LET base == << <<"inn", None>>, <<"name", None>>, <<"revenue_year", 2023>>,
                   <<"revenue", NoneInt>>, <<"segment_tag", None>>, <<"okved_main", None>>,
                   <<"employees", NoneInt>>, <<"site", None>>, <<"description", None>>,
                   <<"region", None>>, <<"contacts", None>>, <<"rating_ref", page.url_path>>,
                   <<"source", <<"rusprofile">>>> >>
        named   == IF page.name # <<>> THEN Set(base, "name", page.name) ELSE base
        inn     == rusprofile_extract_inn(page.inn_digits)
        revenue == rusprofile_extract_revenue(page.revenues)
        with_inn == Set(Set(named, "inn", inn), "revenue", revenue)
        with_okved == IF page.okved # <<>> THEN Set(with_inn, "okved_main", page.okved) ELSE with_inn
        with_site == IF page.site # <<>> /\ startswith(page.site, "http")
                     THEN Set(with_okved, "site", page.site) ELSE with_okved
        with_desc == IF page.description # <<>>
                     THEN Set(with_site, "description", page.description) ELSE with_site
        company_data == Set(with_desc, "segment_tag", rusprofile_determine_segment(with_desc))
    IN  IF ~page.ok THEN None
        ELSE IF ~Truthy(Get(named, "name", None)) THEN None
        ELSE IF ~Truthy(inn) THEN None
        ELSE IF ~TruthyInt(revenue) \/ revenue < 200000000 THEN None
        ELSE IF ~base_is_relevant_profile(company_data) THEN None
        ELSE company_data

\* variant: processed_inns is never consulted
collect_page_keeps_all(all_companies, company_data) ==
    IF company_data # None THEN Append(all_companies, company_data) ELSE all_companies

\* listorg_parser.py 522-558 and rusprofile_parser.py 295-329: one iteration
\* of the inner loop; processed_inns is the set of the INNs of all_companies
collect_page(all_companies, company_data) ==
    IF company_data # None
       /\ \A i \in DOMAIN all_companies :
              Get(all_companies[i], "inn", None) # Get(company_data, "inn", None)
    THEN Append(all_companies, company_data)
    ELSE all_companies

(***************************************************************************)
(* Tax-service adapter (fns_open_data).  An XML document is the text of    *)
(* its elements (Absent: no such element; revenue is the integer of a      *)
(* SumDokhod of decimal digits, BadInt when int() raises on its digits,    *)
(* NoneInt otherwise).  A JSON item is the                                 *)
(* value under the first key of each key list that is present and truthy   *)
(* (<<>> or NoneInt when there is none); the items of the model have no    *)
(* address.                                                                *)
(***************************************************************************)
\* fns_parser.py 371-376
fns_russian_indicators ==
    listorg_russian_indicators
        \cup { "ru:rossijskaya federatsiya", "ru:avtonomnyj okrug", "ru:ao",
               "ru:proezd" }

\* fns_parser.py 360-382: a valid inn, a regional word in region + address,
\* then True anyway
fns_is_russian_company(company_data) ==
    IF fns_inn_valid(Get(company_data, "inn", None)) THEN TRUE
    ELSE LET region        == lower(Get(company_data, "region", <<>>))
             address       == lower(Get(company_data, "address", <<>>))
             text_to_check == joined(region, address)
         IN  IF any_in(fns_russian_indicators, text_to_check) THEN TRUE ELSE TRUE

\* variant: every profile is relevant
fns_is_relevant_profile_any(company_data) == TRUE

\* fns_parser.py 384-417
fns_is_relevant_profile(company_data) ==
    LET name  == lower(Get(company_data, "name", <<>>))
        okved == Get(company_data, "okved_main", <<>>)
    IN  \/ any_in(fns_profile_relevant_keywords, name)
        \/ \E code \in fns_profile_relevant_okveds : startswith(okved, code)

\* variant: the floor of the catalog source
fns_is_relevant_company_low_floor(company_data) ==
    LET inn     == Get(company_data, "inn", None)
        revenue == Get(company_data, "revenue", NoneInt)
    IN  IF ~fns_inn_valid(inn) THEN FALSE
        ELSE IF ~TruthyInt(revenue) \/ revenue < 100000000 THEN FALSE
        ELSE IF ~fns_is_russian_company(company_data) THEN FALSE
        ELSE IF ~fns_is_relevant_profile(company_data) THEN FALSE
        ELSE TRUE

\* fns_parser.py 337-358
fns_is_relevant_company(company_data) ==
    LET inn     == Get(company_data, "inn", None)
        revenue == Get(company_data, "revenue", NoneInt)
    IN  IF ~fns_inn_valid(inn) THEN FALSE
        ELSE IF ~TruthyInt(revenue) \/ revenue < 200000000 THEN FALSE
        ELSE IF ~fns_is_russian_company(company_data) THEN FALSE
        ELSE IF ~fns_is_relevant_profile(company_data) THEN FALSE
        ELSE TRUE

\* fns_parser.py 176-195: the dict one Dokument element leaves in company_data
fns_xml_company_data(document) ==
    Field("inn", document.inn) \o Field("name", document.name)
        \o (IF document.revenue # NoneInt THEN <<<<"revenue", document.revenue>>>> ELSE <<>>)
        \o Field("okved", document.okved) \o Field("address", document.address)

\* fns_parser.py 176-181: the end of one Dokument element
fns_parse_xml_document(companies, document) ==
    IF fns_is_relevant_company(fns_xml_company_data(document))
    THEN Append(companies, fns_xml_company_data(document))
    ELSE companies

\* fns_parser.py 234-307
fns_extract_company_from_json(item, year) ==
    LET base == << <<"inn", None>>, <<"name", None>>, <<"revenue", NoneInt>>,
                   <<"revenue_year", year - 1>>, <<"okved_main", None>>, <<"address", None>>,
                   <<"employees", NoneInt>>, <<"region", None>>,
                   <<"source", <<"fns_open_data">>>>, <<"description", None>>,
                   <<"site", None>>, <<"contacts", None>>, <<"rating_ref", None>>,
                   <<"segment_tag", None>> >>
        with_inn   == IF item.inn # <<>> THEN Set(base, "inn", strip(item.inn)) ELSE base
        with_name  == IF item.name # <<>> THEN Set(with_inn, "name", item.name) ELSE with_inn
        with_rev   == IF TruthyInt(item.revenue)
                      THEN Set(with_name, "revenue", item.revenue) ELSE with_name
        with_okved == IF item.okved # <<>>
                      THEN Set(with_rev, "okved_main", item.okved) ELSE with_rev
        with_ref   == Set(with_okved, "rating_ref", <<"fns_inn_">> \o Get(with_okved, "inn", None))
    IN  IF ~Truthy(Get(with_okved, "inn", None)) \/ ~Truthy(Get(with_okved, "name", None))
        THEN None
        ELSE Set(with_ref, "segment_tag", fns_determine_segment(with_ref))

\* fns_parser.py 216-220: one item of the JSON list
fns_parse_json_item(companies, item, year) ==
    LET company_data == fns_extract_company_from_json(item, year)
    IN  IF company_data # None /\ fns_is_relevant_company(company_data)
        THEN Append(companies, company_data)
        ELSE companies

\* fns_parser.py 510-519: the second pass over the parsed companies
RECURSIVE fns_collect(_, _, _)
fns_collect(all_companies, companies, max_companies) ==
    IF companies = <<>> \/ Len(all_companies) >= max_companies THEN all_companies
    ELSE LET company == Head(companies)
             inn     == Get(company, "inn", None)
         IN  fns_collect(
                 IF /\ fns_is_relevant_company(company)
                    /\ Truthy(inn)
                    /\ \A i \in DOMAIN all_companies : Get(all_companies[i], "inn", None) # inn
                 THEN Append(all_companies, company) ELSE all_companies,
                 Tail(companies), max_companies)

(***************************************************************************)
(* Catalog adapter (ruward).  The sample records keep the fields the       *)
(* pipeline reads or exports by name (services, clients, location and      *)
(* contacts are left out); AGIMA's revenue, 2 800 000 000, is written as   *)
(* the largest integer of the model, the code only compares it with the    *)
(* floor.  A page is: ok, url (absolute, as collect_companies passes it),  *)
(* name (the h1 text), site (the first http link), rating_position,        *)
(* revenue (NoneInt when the page has none).                               *)
(***************************************************************************)
\* ruward_parser.py 105-296: test_agencies
test_agencies ==
    << << <<"name", <<"AGIMA">>>>,
           <<"site", <<"https://agima.ru">>>>,
           <<"category", <<"ru:Digital-agentstvo", "ru:polnogo", "ru:tsikla">>>>,
           <<"revenue", 2147483647>>,
           <<"revenue_year", 2023>>,
           <<"employees", 450>>,
           <<"rating_position", 1>>,
           <<"rating_category", <<"ru:TOP-30", "ru:digital-agentstv">>>>,
           <<"foundation_year", 2001>>,
           <<"description", <<"ru:Krupnejshee", "ru:digital-agentstvo", "ru:v", "ru:Rossii,", "ru:polnyj", "ru:tsikl", "ru:uslug">>>>,
           <<"source", <<"ruward">>>>,
           <<"segment_tag", <<"DIGITAL_AGENCY", "FULL_CYCLE">>>>,
           <<"rating_ref", <<"ruward_agima_2024">>>> >>,

       << <<"name", <<"Red", "Keds">>>>,
           <<"site", <<"https://redkeds.ru">>>>,
           <<"category", <<"ru:Kreativnoe", "ru:digital-agentstvo">>>>,
           <<"revenue", 1500000000>>,
           <<"revenue_year", 2023>>,
           <<"employees", 220>>,
           <<"rating_position", 2>>,
           <<"rating_category", <<"ru:TOP-30", "ru:digital-agentstv">>>>,
           <<"foundation_year", 2007>>,
           <<"description", <<"ru:Kreativnoe", "ru:digital-agentstvo,", "ru:spetsializiruetsya", "ru:na", "ru:brendinge", "ru:i", "ru:digital-kommunikatsiyakh">>>>,
           <<"source", <<"ruward">>>>,
           <<"segment_tag", <<"CREATIVE_AGENCY", "DIGITAL">>>>,
           <<"rating_ref", <<"ruward_redkeds_2024">>>> >>,

       << <<"name", <<"Ingate">>>>,
           <<"site", <<"https://ingate.ru">>>>,
           <<"category", <<"ru:Digital-agentstvo">>>>,
           <<"revenue", 1200000000>>,
           <<"revenue_year", 2023>>,
           <<"employees", 180>>,
           <<"rating_position", 3>>,
           <<"rating_category", <<"ru:TOP-30", "ru:digital-agentstv">>>>,
           <<"foundation_year", 1998>>,
           <<"description", <<"ru:Performance-agentstvo,", "ru:lider", "ru:v", "ru:kontekstnoj", "ru:reklame", "ru:i", "ru:analitike">>>>,
           <<"source", <<"ruward">>>>,
           <<"segment_tag", <<"PERFORMANCE_AGENCY", "ANALYTICS">>>>,
           <<"rating_ref", <<"ruward_ingate_2024">>>> >>,

       << <<"name", <<"ru:Gemotest">>>>,
           <<"site", <<"https://gemotest.ru">>>>,
           <<"category", <<"ru:BTL-agentstvo">>>>,
           <<"revenue", 850000000>>,
           <<"revenue_year", 2023>>,
           <<"employees", 95>>,
           <<"rating_position", 1>>,
           <<"rating_category", <<"ru:TOP-20", "ru:BTL-agentstv">>>>,
           <<"foundation_year", 2005>>,
           <<"description", <<"ru:Vedushchee", "ru:BTL-agentstvo,", "ru:organizatsiya", "ru:masshtabnykh", "ru:promo-aktsij", "ru:i", "ru:iventov">>>>,
           <<"source", <<"ruward">>>>,
           <<"segment_tag", <<"BTL_AGENCY", "EVENTS">>>>,
           <<"rating_ref", <<"ruward_gemotest_2024">>>> >>,

       << <<"name", <<"ru:Sol'">>>>,
           <<"site", <<"https://sol.ru">>>>,
           <<"category", <<"ru:PR-agentstvo">>>>,
           <<"revenue", 650000000>>,
           <<"revenue_year", 2023>>,
           <<"employees", 120>>,
           <<"rating_position", 1>>,
           <<"rating_category", <<"ru:TOP-15", "ru:PR-agentstv">>>>,
           <<"foundation_year", 2003>>,
           <<"description", <<"ru:Vedushchee", "ru:PR-agentstvo,", "ru:spetsializiruetsya", "ru:na", "IT", "ru:i", "ru:tekhnologiyakh">>>>,
           <<"source", <<"ruward">>>>,
           <<"segment_tag", <<"PR_AGENCY", "IT_TECH">>>>,
           <<"rating_ref", <<"ruward_sol_2024">>>> >>,

       << <<"name", <<"ru:PiArkhitektory">>>>,
           <<"site", <<"https://pr-arch.ru">>>>,
           <<"category", <<"ru:PR-agentstvo">>>>,
           <<"revenue", 550000000>>,
           <<"revenue_year", 2023>>,
           <<"employees", 85>>,
           <<"rating_position", 2>>,
           <<"rating_category", <<"ru:TOP-15", "ru:PR-agentstv">>>>,
           <<"foundation_year", 2008>>,
           <<"description", <<"ru:PR-agentstvo", "ru:s", "ru:fokusom", "ru:na", "ru:promyshlennost'", "ru:i", "B2B", "ru:sektor">>>>,
           <<"source", <<"ruward">>>>,
           <<"segment_tag", <<"PR_AGENCY", "INDUSTRIAL">>>>,
           <<"rating_ref", <<"ruward_prarch_2024">>>> >>,

       << <<"name", <<"ru:KROS">>>>,
           <<"site", <<"https://cros.ru">>>>,
           <<"category", <<"ru:Digital-proizvodstvo">>>>,
           <<"revenue", 420000000>>,
           <<"revenue_year", 2023>>,
           <<"employees", 65>>,
           <<"rating_position", 15>>,
           <<"rating_category", <<"ru:TOP-30", "ru:digital-agentstv">>>>,
           <<"foundation_year", 2010>>,
           <<"description", <<"ru:Digital-proizvodstvo,", "ru:spetsializatsiya", "ru:na", "ru:slozhnykh", "ru:integratsiyakh">>>>,
           <<"source", <<"ruward">>>>,
           <<"segment_tag", <<"WEB_DEVELOPMENT", "INTEGRATION">>>>,
           <<"rating_ref", <<"ruward_cros_2024">>>> >>,

       << <<"name", <<"ru:Reklamnoe", "ru:agentstvo", "ru:\"Farpost\"">>>>,
           <<"site", <<"https://farpost.ru">>>>,
           <<"category", <<"ru:Digital-agentstvo">>>>,
           <<"revenue", 380000000>>,
           <<"revenue_year", 2023>>,
           <<"employees", 55>>,
           <<"rating_position", 20>>,
           <<"rating_category", <<"ru:TOP-30", "ru:digital-agentstv">>>>,
           <<"foundation_year", 2012>>,
           <<"description", <<"ru:Spetsializatsiya", "ru:na", "e-commerce", "ru:i", "ru:performance-marketinge">>>>,
           <<"source", <<"ruward">>>>,
           <<"segment_tag", <<"ECOMMERCE", "PERFORMANCE">>>>,
           <<"rating_ref", <<"ruward_farpost_2024">>>> >>,

       << <<"name", <<"ru:Imperial">>>>,
           <<"site", <<"https://imperial.ru">>>>,
           <<"category", <<"ru:Medijnoe", "ru:agentstvo">>>>,
           <<"revenue", 320000000>>,
           <<"revenue_year", 2023>>,
           <<"employees", 42>>,
           <<"rating_position", 5>>,
           <<"rating_category", <<"ru:TOP-10", "ru:medijnykh", "ru:agentstv">>>>,
           <<"foundation_year", 2006>>,
           <<"description", <<"ru:Medijnoe", "ru:agentstvo,", "ru:rabotayushchee", "ru:s", "ru:krupnejshimi", "FMCG", "ru:brendami">>>>,
           <<"source", <<"ruward">>>>,
           <<"segment_tag", <<"MEDIA_AGENCY", "FMCG">>>>,
           <<"rating_ref", <<"ruward_imperial_2024">>>> >>,

       << <<"name", <<"ru:ArtKom">>>>,
           <<"site", <<"https://artcom.ru">>>>,
           <<"category", <<"ru:Event-agentstvo">>>>,
           <<"revenue", 290000000>>,
           <<"revenue_year", 2023>>,
           <<"employees", 70>>,
           <<"rating_position", 3>>,
           <<"rating_category", <<"ru:TOP-20", "ru:BTL-agentstv">>>>,
           <<"foundation_year", 2004>>,
           <<"description", <<"ru:Spetsializatsiya", "ru:na", "ru:biznes-iventakh", "ru:i", "ru:delovykh", "ru:meropriyatiyakh">>>>,
           <<"source", <<"ruward">>>>,
           <<"segment_tag", <<"EVENT_AGENCY", "BUSINESS">>>>,
           <<"rating_ref", <<"ruward_artcom_2024">>>> >> >>

\* ruward_parser.py 353-431
ruward_parse_company_page(page, year) ==
    LET named    == IF page.name # <<>> THEN <<<<"name", page.name>>>> ELSE <<>>
        sited    == IF page.site # <<>> THEN Set(named, "site", page.site) ELSE named
        rated    == IF page.rating_position # NoneInt
                    THEN Set(sited, "rating_position", page.rating_position) ELSE sited
        revenued == IF page.revenue # NoneInt
                    THEN Set(Set(rated, "revenue", page.revenue), "revenue_year", year) ELSE rated
        based    == Set(Set(revenued, "source", <<"ruward">>), "url", page.url)
        url      == lower(page.url)
    IN  IF ~page.ok THEN None
        ELSE IF contains(url, "digital") THEN Set(based, "segment_tag", <<"DIGITAL_AGENCY">>)
        ELSE IF contains(url, "pr")      THEN Set(based, "segment_tag", <<"PR_AGENCY">>)
        ELSE IF contains(url, "btl")     THEN Set(based, "segment_tag", <<"BTL_AGENCY">>)
        ELSE IF contains(url, "event")   THEN Set(based, "segment_tag", <<"EVENT_AGENCY">>)
        ELSE IF contains(url, "media")   THEN Set(based, "segment_tag", <<"MEDIA_AGENCY">>)
        ELSE based

\* ruward_parser.py 565-603
ruward_is_relevant_company(company_data) ==
    LET name     == Get(company_data, "name", None)
        revenue  == Get(company_data, "revenue", NoneInt)
        category == lower(Get(company_data, "category", <<>>))
        segment  == upper(Get(company_data, "segment_tag", <<>>))
        description == lower(Get(company_data, "description", <<>>))
        site     == Get(company_data, "site", None)
        is_relevant_field ==
            \/ any_in(ruward_relevant_keywords, lower(category))
            \/ \E keyword \in ruward_relevant_keywords : contains(segment, UpperOf[keyword])
            \/ any_in(ruward_relevant_keywords, description)
    IN  IF ~Truthy(name) THEN FALSE
        ELSE IF ~TruthyInt(revenue) \/ revenue < 100000000 THEN FALSE
        ELSE IF ~is_relevant_field THEN FALSE
        ELSE IF ~Truthy(site) \/ ~startswith(site, "http") THEN FALSE
        ELSE TRUE

\* variant: the filter loop never looks at max_companies
RECURSIVE ruward_filter_no_cap(_, _, _)
ruward_filter_no_cap(filtered_companies, companies, max_companies) ==
    IF companies = <<>> THEN filtered_companies
    ELSE ruward_filter_no_cap(
             IF ruward_is_relevant_company(Head(companies))
             THEN Append(filtered_companies, Head(companies)) ELSE filtered_companies,
             Tail(companies), max_companies)

\* ruward_parser.py 546-560: filter and cut to max_companies
RECURSIVE ruward_filter(_, _, _)
ruward_filter(filtered_companies, companies, max_companies) ==
    IF companies = <<>> \/ Len(filtered_companies) >= max_companies THEN filtered_companies
    ELSE ruward_filter(
             IF ruward_is_relevant_company(Head(companies))
             THEN Append(filtered_companies, Head(companies)) ELSE filtered_companies,
             Tail(companies), max_companies)

(***************************************************************************)
(* ParserManager.merge_results                                             *)
(***************************************************************************)
\* hashlib.md5(x.encode()).hexdigest()[:10], taken to be collision-free on
\* the inputs of the model (the digest prefix has 40 bits)
md5_10(x) == <<"md5", x>>

\* str(company): the rendering lists the items in insertion order
str_dict(company) == <<"{", company, "}">>

\* variant: the identifier of a record with an INN also names the source
_get_company_id_per_source(company, parser_name) ==
    LET inn == Get(company, "inn", None)
    IN  IF Truthy(inn) THEN <<"inn_", parser_name, inn>>
        ELSE IF parser_name = "ruward"
                /\ Truthy(Get(company, "name", <<>>))
                /\ Truthy(Get(company, "site", <<>>))
             THEN <<"ruward_", md5_10(Get(company, "name", <<>>) \o <<"_">> \o Get(company, "site", <<>>))>>
             ELSE None

\* variant: the identifier of a ruward record hashes the whole record
_get_company_id_whole_record(company, parser_name) ==
    LET inn == Get(company, "inn", None)
    IN  IF Truthy(inn) THEN <<"inn_", inn>>
        ELSE IF parser_name = "ruward"
                /\ Truthy(Get(company, "name", <<>>))
                /\ Truthy(Get(company, "site", <<>>))
             THEN <<"ruward_", md5_10(str_dict(company))>>
             ELSE None

_get_company_id(company, parser_name) ==
    LET inn == Get(company, "inn", None)
    IN  IF Truthy(inn) THEN <<"inn_", inn>>
        ELSE IF parser_name = "ruward"
                /\ Truthy(Get(company, "name", <<>>))
                /\ Truthy(Get(company, "site", <<>>))
             THEN <<"ruward_", md5_10(Get(company, "name", <<>>) \o <<"_">> \o Get(company, "site", <<>>))>>
             ELSE None

\* variant: the fallback hash is not remembered in processed_ids
merge_company_forgets_hash(acc, company, parser_name) ==
    LET company_id == _get_company_id(company, parser_name)
        unique_id  == md5_10(str_dict(company))
        keep(ids)  == [merged |-> Append(acc.merged, company),
                       from |-> Append(acc.from, parser_name),
                       processed_ids |-> acc.processed_ids \cup ids]
    IN  IF company_id # None /\ company_id \notin acc.processed_ids THEN keep({company_id})
        ELSE IF company_id = None /\ unique_id \notin acc.processed_ids THEN keep({})
        ELSE acc

\* variant: the record kept is a copy stamped with the name of its source
merge_company_stamps_source(acc, company, parser_name) ==
    LET company_id == _get_company_id(company, parser_name)
        unique_id  == md5_10(str_dict(company))
        keep(id)   == [merged |-> Append(acc.merged, Set(company, "source", <<parser_name>>)),
                       from |-> Append(acc.from, parser_name),
                       processed_ids |-> acc.processed_ids \cup {id}]
    IN  IF company_id # None /\ company_id \notin acc.processed_ids THEN keep(company_id)
        ELSE IF company_id = None /\ unique_id \notin acc.processed_ids THEN keep(unique_id)
        ELSE acc

\* one iteration of the inner loop (main.py 106-119)
merge_company(acc, company, parser_name) ==
    LET company_id == _get_company_id(company, parser_name)
        unique_id  == md5_10(str_dict(company))
        keep(id)   == [merged |-> Append(acc.merged, company),
                       from |-> Append(acc.from, parser_name),
                       processed_ids |-> acc.processed_ids \cup {id}]
    IN  IF company_id # None /\ company_id \notin acc.processed_ids THEN keep(company_id)
        ELSE IF company_id = None /\ unique_id \notin acc.processed_ids THEN keep(unique_id)
        ELSE acc

RECURSIVE merge_list(_, _, _)
merge_list(acc, companies, parser_name) ==
    IF companies = <<>> THEN acc
    ELSE merge_list(merge_company(acc, Head(companies), parser_name), Tail(companies), parser_name)

RECURSIVE merge_sources(_, _)
merge_sources(acc, results) ==
    IF results = <<>> THEN acc
    ELSE merge_sources(merge_list(acc, Head(results)[2], Head(results)[1]), Tail(results))

merge_results(results) ==
    merge_sources([merged |-> <<>>, from |-> <<>>, processed_ids |-> {}], results)

(***************************************************************************)
(* ParserManager.save_merged_results.  The table written is its columns    *)
(* and, per record, the cells in column order; a cell whose record lacks   *)
(* the key or holds None is blank: <<>> in a text column, NoneInt in a     *)
(* numeric one.                                                            *)
(***************************************************************************)
\* main.py 157-158
priority_columns ==
    <<"inn", "name", "revenue_year", "revenue", "segment_tag", "source",
      "category", "site", "rating_position", "rating_category">>

\* sorted(): the other keys of the model's records in the order of sorted()
sorted_columns ==
    <<"address", "contacts", "description", "employees", "foundation_year",
      "okved", "okved_main", "rating_ref", "region", "url">>

\* the keys whose values are int-or-None
IntKeys == {"revenue", "revenue_year", "employees", "rating_position", "foundation_year"}

Cell(company, column) ==
    IF column \in IntKeys THEN Get(company, column, NoneInt)
    ELSE IF Get(company, column, None) = None THEN <<>>
    ELSE Get(company, column, None)

NoExport == [columns |-> <<>>, rows |-> <<>>]

\* main.py 139-186
save_merged_results(merged) ==
    IF merged = <<>> THEN NoExport
    ELSE LET all_columns == UNION {Keys(merged[i]) : i \in DOMAIN merged}
             ordered_columns ==
                 SelectSeq(priority_columns, LAMBDA col : col \in all_columns)
                     \o SelectSeq(sorted_columns, LAMBDA col : col \in all_columns)
         IN  [columns |-> ordered_columns,
              rows |-> [i \in DOMAIN merged |->
                           [j \in DOMAIN ordered_columns |-> Cell(merged[i], ordered_columns[j])]]]

(***************************************************************************)
(* Scenario: the validity test on bounded identifiers                      *)
(***************************************************************************)
MaxIdLen == 13

IdChars == {"7", "a", " ", "-", "sup2"}

\* identifiers of every length up to MaxIdLen: all "7", or "7" with one
\* other character at one place; and None
IdentifierInputs ==
    {None} \cup
    UNION {{[i \in 1..n |-> IF i = p THEN c ELSE "7"] : p \in 0..n, c \in IdChars} : n \in 0..MaxIdLen}

InitValid ==
    /\ inn_in \in IdentifierInputs /\ valid_out = "pending"
    /\ nat_company = <<>> /\ nat_by = "none" /\ nat_out = "pending"

CheckFns ==
    /\ valid_out = "pending"
    /\ valid_out' = IF fns_inn_valid(inn_in) THEN "True" ELSE "False"
    /\ UNCHANGED <<inn_in, notValid>>

CheckBase ==
    /\ valid_out = "pending"
    /\ valid_out' = IF base_inn_valid(inn_in) THEN "True" ELSE "False"
    /\ UNCHANGED <<inn_in, notValid>>

(***************************************************************************)
(* _make_request: one fetch of one URL.  Each session.get gives an HTTP     *)
(* status or raises (timeout, refused connection, ...).                    *)
(***************************************************************************)
\* max_retries is 2 by default in listorg_parser.py and 3 in fns_parser.py
\* and ruward_parser.py
MaxRetries == 3

\* what a session.get gives: a status, or Raised when it raises
Raised == <<"exception">>
Response(status_code) == <<"response", status_code>>
Outcomes == {Response(status_code) : status_code \in {200, 204, 403, 404, 429, 502}}
                \cup {Raised}

\* the return value before the call has returned
Pending == <<"pending">>

\* variant: every 2xx status counts as success
status_ok_any_2xx(status_code) == status_code \in 200..299

\* response.status_code == 200
status_ok(status_code) == status_code = 200

\* the sleep after a request that did not give 200: <<low, high>> seconds,
\* <<>> when the loop goes on at once (listorg_parser.py 53-62,
\* fns_parser.py 62-72, ruward_parser.py 66-78)
retry_wait(by, attempt, max_retries, outcome) ==
    IF outcome = Raised
    THEN IF attempt < max_retries - 1
         THEN CASE by = "list_org"      -> << <<1, 3>> >>
                [] by = "fns_open_data" -> << <<3, 7>> >>
                [] by = "ruward"        -> << <<2, 5>> >>
         ELSE <<>>
    ELSE LET status_code == outcome[2] IN
         CASE by = "list_org" ->
                IF status_code = 429 THEN << <<(attempt + 1) * 5, (attempt + 1) * 5>> >> ELSE <<>>
           [] by = "fns_open_data" ->
                IF status_code \in {429, 502, 503}
                THEN << <<(attempt + 1) * 10, (attempt + 1) * 10>> >> ELSE <<>>
           [] by = "ruward" ->
                IF status_code \in {429, 403}
                THEN << <<(attempt + 1) * 20, (attempt + 1) * 20>> >>
                ELSE IF status_code \in {500, 502, 503, 504}
                THEN << <<(attempt + 1) * 10, (attempt + 1) * 10>> >> ELSE <<>>

IdleFetch ==
    /\ fetch_by = "none"
    /\ fetch_max_retries = 0
    /\ fetch_seen = <<>>
    /\ fetch_waits = <<>>
    /\ fetch_pc = "returned"
    /\ fetch_result = Pending

\* a call of _make_request(url, max_retries)
InitFetch ==
    /\ fetch_by \in {"list_org", "fns_open_data", "ruward"}
    /\ fetch_max_retries \in 0..MaxRetries
    /\ fetch_seen = <<>>
    /\ fetch_waits = <<>>
    /\ fetch_pc = "loop"
    /\ fetch_result = Pending

\* one pass of `for attempt in range(max_retries)`: the request, then the
\* return of the response or the sleep; attempt is the number of passes done
Attempt(outcome) ==
    LET attempt == Len(fetch_seen)
    IN  /\ fetch_pc = "loop"
        /\ attempt < fetch_max_retries
        /\ fetch_seen' = Append(fetch_seen, outcome)
        /\ IF outcome # Raised /\ status_ok(outcome[2])
           THEN /\ fetch_result' = outcome
                /\ fetch_pc' = "returned"
                /\ UNCHANGED fetch_waits
           ELSE /\ fetch_waits' =
                     fetch_waits \o retry_wait(fetch_by, attempt, fetch_max_retries, outcome)
                /\ UNCHANGED <<fetch_pc, fetch_result>>
        /\ UNCHANGED <<fetch_by, fetch_max_retries, notFetch>>

\* the loop is over: return None
ReturnNone ==
    /\ fetch_pc = "loop"
    /\ Len(fetch_seen) >= fetch_max_retries
    /\ fetch_result' = None
    /\ fetch_pc' = "returned"
    /\ UNCHANGED <<fetch_by, fetch_max_retries, fetch_seen, fetch_waits, notFetch>>

(***************************************************************************)
(* Scenario: the nationality checks on bounded records                     *)
(***************************************************************************)
NatInns == {Absent, None, <<"7", "7">>, <<"7", "7", "0", "1", "2", "3", "4", "5", "6", "7">>,
            <<"7", "7", "0", "1", "2", "3", "4", "5", "6", "7", "8", "9">>}
NatRegions == {Absent, None, <<"ru:Moskva">>, <<"Russia">>, <<"Berlin">>, <<"ru:Kazan'">>}
NatAddresses == {Absent, <<"ru:Moskva">>, <<"Berlin">>}
NatOkveds == {Absent, <<"73.11">>}
NatContacts == {Absent, <<"+74951234567">>, <<"8(495)1234567">>, <<"Berlin">>}

NatCompanies ==
    { Field("inn", inn) \o Field("region", region) \o Field("address", address)
          \o Field("okved_main", okved) \o Field("contacts", contacts) :
        inn \in NatInns, region \in NatRegions, address \in NatAddresses,
        okved \in NatOkveds, contacts \in NatContacts }

\* the check each adapter answers self._is_russian_company with; rusprofile
\* and ruward inherit the one of the base class
NationalityCheck(by, company_data) ==
    CASE by = "list_org"      -> listorg_is_russian_company(company_data)
      [] by = "fns_open_data" -> fns_is_russian_company(company_data)
      [] by = "rusprofile"    -> base_is_russian_company(company_data)
      [] by = "ruward"        -> base_is_russian_company(company_data)

InitNat ==
    /\ nat_company \in NatCompanies
    /\ nat_by = "none"
    /\ nat_out = "pending"
    /\ inn_in = None /\ valid_out = "pending"

\* the checks read company_data with .get and write nothing to it
CheckNationality(by) ==
    /\ nat_by = "none"
    /\ nat_by' = by
    /\ nat_out' = IF NationalityCheck(by, nat_company) THEN "True" ELSE "False"
    /\ UNCHANGED <<nat_company, notNat>>

(***************************************************************************)
(* Scenario: the segment classifiers on bounded records                    *)
(***************************************************************************)
MaxNameWords == 2

BoundedSeq(S, n) == UNION {[1..k -> S] : k \in 0..n}

ClsWords == {"BTL", "ru:suveniry", "ru:polnyj", "ru:tsikl", "ru:agentstvo",
             "ru:reklama", "ru:marketing", "ru:Stroj"}
ClsDescriptions == {Absent, None, <<"digital">>, <<"ru:tirazh">>}
ClsOkveds == {Absent, <<"73.11">>, <<"73.12">>, <<"18.12">>, <<"74.20">>, <<"62.01">>}
ClsSites == {Absent, <<"http://acme.example">>, <<"https://digital-lab.example">>}

ClsCompanies ==
    { Field("name", name) \o Field("description", description)
          \o Field("okved_main", okved) \o Field("site", site) :
        name \in BoundedSeq(ClsWords, MaxNameWords), description \in ClsDescriptions,
        okved \in ClsOkveds, site \in ClsSites }

Classifiers == {"listorg", "fns", "rusprofile", "legacy"}

determine_segment(by, company_data) ==
    CASE by = "listorg"    -> listorg_determine_segment(company_data)
      [] by = "fns"        -> fns_determine_segment(company_data)
      [] by = "rusprofile" -> rusprofile_determine_segment(company_data)
      [] by = "legacy"     -> legacy_determine_segment(company_data)

InitCls ==
    /\ cls_company \in ClsCompanies
    /\ cls_by = "none"
    /\ cls_labels = <<>>
    /\ cls_again = <<>>

IdleCls ==
    /\ cls_company = <<>>
    /\ cls_by = "none"
    /\ cls_labels = <<>>
    /\ cls_again = <<>>

\* the classifiers read company_data with .get and write nothing to it
Classify(by) ==
    /\ cls_by = "none"
    /\ cls_by' = by
    /\ cls_labels' = determine_segment(by, cls_company)
    /\ UNCHANGED <<cls_company, cls_again, notCls>>

ClassifyAgain ==
    /\ cls_by # "none"
    /\ cls_again = <<>>
    /\ cls_again' = determine_segment(cls_by, cls_company)
    /\ UNCHANGED <<cls_company, cls_by, cls_labels, notCls>>

(***************************************************************************)
(* Scenario: merge_results on bounded inputs                               *)
(***************************************************************************)
MaxRecords == 3

INN_A == <<"7", "7", "0", "1", "2", "3", "4", "5", "6", "7">>
INN_B == <<"5", "0", "4", "0", "0", "0", "0", "0", "0", "1">>

SITE_ACME == <<"http://acme.example">>

MergePool ==
    { <<<<"inn", INN_A>>, <<"name", <<"acme">>>>, <<"site", SITE_ACME>>>>,
      <<<<"inn", INN_A>>, <<"name", <<"bolt">>>>>>,
      <<<<"inn", INN_B>>, <<"name", <<"acme">>>>, <<"site", SITE_ACME>>>>,
      <<<<"name", <<"acme">>>>, <<"site", SITE_ACME>>>>,
      <<<<"site", SITE_ACME>>, <<"name", <<"acme">>>>>>,
      <<<<"name", <<"acme">>>>, <<"site", SITE_ACME>>, <<"category", <<"digital">>>>>>,
      <<<<"inn", None>>, <<"name", <<"acme">>>>>> }

\* merge_results only tests parser_name = 'ruward': one other name stands for
\* every directory/tax source
ParserNames == {"list_org", "ruward"}

Total(results) ==
    LET RECURSIVE sum(_)
        sum(r) == IF r = <<>> THEN 0 ELSE Len(Head(r)[2]) + sum(Tail(r))
    IN  sum(results)

\* every list together with a second copy of itself
Doubled(results) == [i \in DOMAIN results |-> <<results[i][1], results[i][2] \o results[i][2]>>]

InitMerge ==
    /\ all_results = <<>>
    /\ failed = {}
    /\ merged_companies = <<>>
    /\ merged_from = <<>>
    /\ merged_twice = <<>>
    /\ mpc = "input"

\* the caller builds the dict: a new key with an empty list ...
AddSource(name) ==
    /\ mpc = "input"
    /\ \A i \in DOMAIN all_results : all_results[i][1] # name
    /\ all_results' = Append(all_results, <<name, <<>>>>)
    /\ UNCHANGED <<merged_companies, merged_from, merged_twice, mpc, notMerge>>

\* ... and one more record in the list of the newest key
AddCompany(company) ==
    /\ mpc = "input"
    /\ all_results # <<>>
    /\ Total(all_results) < MaxRecords
    /\ all_results' = [all_results EXCEPT ![Len(all_results)][2] = Append(@, company)]
    /\ UNCHANGED <<merged_companies, merged_from, merged_twice, mpc, notMerge>>

Merge ==
    /\ mpc = "input"
    /\ merged_companies' = merge_results(all_results).merged
    /\ merged_from' = merge_results(all_results).from
    /\ merged_twice' = merge_results(Doubled(all_results)).merged
    /\ mpc' = "merged"
    /\ UNCHANGED <<all_results, notMerge>>

(***************************************************************************)
(* Scenario: run_all_parsers, merge_results, save_merged_results           *)
(***************************************************************************)
MaxPerParser == 2
MaxDocuments == 2

INN_C == <<"7", "8", "0", "1", "0", "0", "0", "0", "0", "2">>
INN_12 == INN_A \o <<"8", "9">>
INN_SUP == [i \in 1..10 |-> IF i = 10 THEN "sup2" ELSE "7"]

Page(ok, url_path, name, inn_digits, revenues, okved, site, description) ==
    [ok |-> ok, url_path |-> url_path, name |-> name, inn_digits |-> inn_digits,
     revenues |-> revenues, okved |-> okved, site |-> site, description |-> description]

DirectoryPages ==
    { Page(TRUE, <<"/company/1">>, <<"BTL", "ru:agentstvo">>, INN_A, <<250000000>>,
           <<"73.11">>, SITE_ACME, <<>>),
      Page(TRUE, <<"/company/2">>, <<"ru:Stroj">>, INN_B, <<250000000>>, <<"62.01">>, <<>>, <<>>),
      Page(TRUE, <<"/company/3">>, <<"ru:suveniry">>, INN_12, <<200000000>>, <<>>, <<>>, <<>>),
      Page(TRUE, <<"/company/4">>, <<"ru:agentstvo">>, INN_C, <<150000000>>, <<>>, <<>>, <<>>),
      Page(TRUE, <<"/company/5">>, <<>>, INN_C, <<250000000>>, <<"73.11">>, <<>>, <<>>),
      Page(TRUE, <<"/company/6">>, <<"ru:agentstvo">>, <<>>, <<250000000>>, <<>>, <<>>, <<>>),
      Page(FALSE, <<"/company/7">>, <<>>, <<>>, <<>>, <<>>, <<>>, <<>>),
      Page(TRUE, <<"/company/8">>, <<"ru:marketing">>, INN_C, <<150000000, 300000000>>,
           <<"74.20">>, <<>>, <<"digital">>) }

Document(inn, name, revenue, okved, address) ==
    [inn |-> inn, name |-> name, revenue |-> revenue, okved |-> okved, address |-> address]

XmlDocuments ==
    { Document(INN_A, <<"BTL", "ru:agentstvo">>, 250000000, <<"73.11">>, Absent),
      Document(INN_SUP, <<"ru:Promo">>, 300000000, Absent, Absent),
      Document(INN_B, <<"ru:Stroj">>, 250000000, <<"73.11">>, Absent),
      Document(INN_C, <<"ru:agentstvo">>, 150000000, Absent, Absent),
      Document(INN_B, None, 250000000, Absent, Absent),
      Document(Absent, <<"BTL">>, 250000000, Absent, Absent),
      Document(INN_C, <<"BTL">>, NoneInt, Absent, Absent),
      Document(INN_A, <<"ru:Promo">>, 300000000, Absent, Absent),
      Document(INN_B, <<"ru:Promo">>, BadInt, Absent, Absent) }

Item(inn, name, revenue, okved) ==
    [inn |-> inn, name |-> name, revenue |-> revenue, okved |-> okved]

JsonItems ==
    { Item(INN_B, <<"ru:Stroj">>, 250000000, <<"73.11">>),
      Item(INN_C, <<"ru:agentstvo">>, 150000000, <<>>),
      Item(INN_A, <<"ru:reklama">>, 200000000, <<"82.30">>),
      Item(INN_C, <<>>, 250000000, <<>>),
      Item(<<" ">> \o INN_C \o <<" ">>, <<"BTL">>, 250000000, <<>>),
      Item(<<>>, <<"BTL">>, 250000000, <<>>) }

RatingPage(ok, url, name, site, rating_position, revenue) ==
    [ok |-> ok, url |-> url, name |-> name, site |-> site,
     rating_position |-> rating_position, revenue |-> revenue]

RatingPages ==
    { RatingPage(TRUE, <<"https://www.ruward.ru/company/digital-lab">>, <<"acme">>, SITE_ACME, 3, 150000000),
      RatingPage(TRUE, <<"https://www.ruward.ru/company/acme">>, <<"acme">>, SITE_ACME, 5, 300000000),
      RatingPage(TRUE, <<"https://www.ruward.ru/company/btl-promo">>, <<"bolt">>,
                 <<"https://bolt.example">>, NoneInt, 90000000),
      RatingPage(TRUE, <<"https://www.ruward.ru/company/digital-lab">>, <<>>, SITE_ACME, 1, 300000000),
      RatingPage(TRUE, <<"https://www.ruward.ru/company/btl-promo">>, <<"bolt">>,
                 <<"https://bolt.example">>, 7, 120000000),
      RatingPage(FALSE, <<"https://www.ruward.ru/company/acme">>, <<>>, <<>>, NoneInt, NoneInt),
      RatingPage(TRUE, <<"https://www.ruward.ru/company/digital-lab">>, <<"acme">>, <<>>, 2, 300000000) }

\* datetime.now().year
Years == {2025}

\* main.py 39-44: the parsers in the order of the dict
parsers == <<"list_org", "rusprofile", "fns_open_data", "ruward">>

\* the parser after parser_name, "collected" after the last
NextParser(parser_name) ==
    LET i == CHOOSE k \in DOMAIN parsers : parsers[k] = parser_name
    IN  IF i < Len(parsers) THEN parsers[i + 1] ELSE "collected"

FirstPhase(parser_name) ==
    IF parser_name \in {"list_org", "rusprofile"} THEN "pages" ELSE "start"

NoCandidate == [kind |-> "none"]

InitPipe ==
    /\ ppc = parsers[1]
    /\ phase = FirstPhase(parsers[1])
    /\ cur_companies = <<>>
    /\ candidate = NoCandidate
    /\ exported = NoExport
    /\ max_per_parser \in 0..MaxPerParser

IdlePipe ==
    /\ ppc = "idle"
    /\ phase = "idle"
    /\ cur_companies = <<>>
    /\ candidate = NoCandidate
    /\ exported = NoExport
    /\ max_per_parser = MaxPerParser

\* main.py 79: results[parser_name] = companies, and on to the next parser
Return(result) ==
    /\ all_results' = Append(all_results, <<ppc, result>>)
    /\ ppc' = NextParser(ppc)
    /\ phase' = FirstPhase(NextParser(ppc))
    /\ cur_companies' = <<>>
    /\ candidate' = NoCandidate
    /\ UNCHANGED <<merged_companies, merged_from, merged_twice, mpc, exported, notPipe>>

\* one company link of list_org's inner loop
ListOrgPage(page) ==
    /\ ppc = "list_org"
    /\ Len(cur_companies) < max_per_parser
    /\ cur_companies' = collect_page(cur_companies, listorg_parse_company_page(page))
    /\ candidate' = [kind |-> "page", input |-> page]
    /\ UNCHANGED <<ppc, phase, exported, mergeVars, notPipe>>

\* one company link of rusprofile's inner loop
RusprofilePage(page) ==
    /\ ppc = "rusprofile"
    /\ Len(cur_companies) < max_per_parser
    /\ cur_companies' = collect_page(cur_companies, rusprofile_parse_company_page(page))
    /\ candidate' = [kind |-> "page", input |-> page]
    /\ UNCHANGED <<ppc, phase, exported, mergeVars, notPipe>>

\* the loops end (no more links or queries, or max_companies reached)
FinishDirectory ==
    /\ ppc \in {"list_org", "rusprofile"}
    /\ Return(cur_companies)

\* fns_parser.py 490-502: the archive holds an XML or a JSON file
FnsOpen(format) ==
    /\ ppc = "fns_open_data"
    /\ phase = "start"
    /\ phase' = format
    /\ UNCHANGED <<ppc, cur_companies, candidate, exported, mergeVars, notPipe>>

\* fns_parser.py 495-508: nothing downloaded or unknown format: return []
FnsNoDataset ==
    /\ ppc = "fns_open_data"
    /\ phase = "start"
    /\ Return(<<>>)

\* fns_parser.py 172-204: the elements of one Dokument; int() of its
\* SumDokhod raises inside the try around the whole parse, which returns []
FnsXmlDocument(document) ==
    /\ ppc = "fns_open_data"
    /\ phase = "xml"
    /\ Len(cur_companies) < MaxDocuments
    /\ IF document.revenue = BadInt
       THEN cur_companies' = <<>> /\ phase' = "parsed"
       ELSE /\ cur_companies' = fns_parse_xml_document(cur_companies, document)
            /\ phase' = phase
    /\ candidate' = [kind |-> "document", input |-> document]
    /\ UNCHANGED <<ppc, exported, mergeVars, notPipe>>

FnsJsonItem(item, year) ==
    /\ ppc = "fns_open_data"
    /\ phase = "json"
    /\ Len(cur_companies) < MaxDocuments
    /\ cur_companies' = fns_parse_json_item(cur_companies, item, year)
    /\ candidate' = [kind |-> "item", input |-> item]
    /\ UNCHANGED <<ppc, phase, exported, mergeVars, notPipe>>

\* fns_parser.py 202-204, 230-232: the file is not well-formed (an XML syntax
\* error at any place, json.load before the first item): the parse raises,
\* the parsed list is []
FnsParseError ==
    /\ ppc = "fns_open_data"
    /\ \/ phase = "xml"
       \/ phase = "json" /\ candidate = NoCandidate
    /\ cur_companies' = <<>>
    /\ phase' = "parsed"
    /\ candidate' = NoCandidate
    /\ UNCHANGED <<ppc, exported, mergeVars, notPipe>>

\* the file is read to its end; the second pass returns the result
FinishFns ==
    /\ ppc = "fns_open_data"
    /\ phase \in {"xml", "json", "parsed"}
    /\ Return(fns_collect(<<>>, cur_companies, max_per_parser))

\* ruward_parser.py 541-544: use_test_data
RuwardTestData ==
    /\ ppc = "ruward"
    /\ phase = "start"
    /\ cur_companies' = test_agencies
    /\ phase' = "loaded"
    /\ UNCHANGED <<ppc, candidate, exported, mergeVars, notPipe>>

\* ruward_parser.py 497-511: one row of a rating table (the mode a caller
\* selects with use_test_data=False; the default is the test data)
RuwardPage(page, year) ==
    /\ ppc = "ruward"
    /\ phase \in {"start", "live"}
    /\ Len(cur_companies) < max_per_parser
    /\ cur_companies' = IF ruward_parse_company_page(page, year) # None
                        THEN Append(cur_companies, ruward_parse_company_page(page, year))
                        ELSE cur_companies
    /\ phase' = "live"
    /\ candidate' = [kind |-> "rating page", input |-> page]
    /\ UNCHANGED <<ppc, exported, mergeVars, notPipe>>

\* ruward_parser.py 536-539: the live collection raises, fall back
RuwardLiveError ==
    /\ ppc = "ruward"
    /\ phase \in {"start", "live"}
    /\ cur_companies' = SubSeq(test_agencies, 1, max_per_parser)
    /\ phase' = "fallback"
    /\ candidate' = NoCandidate
    /\ UNCHANGED <<ppc, exported, mergeVars, notPipe>>

FinishRuward ==
    /\ ppc = "ruward"
    /\ phase \in {"live", "loaded", "fallback"}
    /\ Return(ruward_filter(<<>>, cur_companies, max_per_parser))

\* variant: the except clause only logs
on_parser_error_logs_only(results, parser_name) == results

\* variant: the except clause stores None
on_parser_error_stores_none(results, parser_name) == Set(results, parser_name, None)

\* main.py 93-95: results[parser_name] = []
on_parser_error(results, parser_name) == Set(results, parser_name, <<>>)

\* main.py 70-95: collect_companies raises, or save_to_csv does; the except
\* clause runs and the loop goes on to the next parser
ParserFails ==
    /\ ppc \in Range(parsers)
    /\ all_results' = on_parser_error(all_results, ppc)
    /\ failed' = failed \cup {ppc}
    /\ ppc' = NextParser(ppc)
    /\ phase' = FirstPhase(NextParser(ppc))
    /\ cur_companies' = <<>>
    /\ candidate' = NoCandidate
    /\ UNCHANGED <<merged_companies, merged_from, merged_twice, mpc, exported,
                   validVars, clsVars, argVars, natVars, fetchVars, descVars>>

RunMerge ==
    /\ ppc = "collected"
    /\ Merge

SaveMerged ==
    /\ ppc = "collected"
    /\ mpc = "merged"
    /\ exported' = save_merged_results(merged_companies)
    /\ mpc' = "saved"
    /\ UNCHANGED <<ppc, phase, cur_companies, candidate,
                   all_results, merged_companies, merged_from, merged_twice, notPipe>>

(***************************************************************************)
(* ListOrgParser._extract_clean_description.  A text is its words, single  *)
(* spaces between them; the tables give, for the words of the model, what  *)
(* len, slicing and the regular expressions compute on them.  A label of   *)
(* step 3 begins and ends at a word boundary in the texts of the model.    *)
(***************************************************************************)
\* p \in SuffixesOf[w]: w.endswith(p)
SuffixesOf ==
    ("ru:akme" :> {"ru:akme"})
    @@ ("ru:plyus" :> {"ru:plyus"})
    @@ ("ru:uslugi" :> {"ru:uslugi"})

\* len(w) of the words of the descriptions
CharsOf ==
    ("ru:Okazyvaet" :> 9)
    @@ ("ru:uslugi" :> 6)
    @@ ("ru:po" :> 2)
    @@ ("ru:organizatsii" :> 11)
    @@ ("ru:meropriyatij" :> 11)
    @@ ("7701234567" :> 10)
    @@ ("770123456789" :> 12)
    @@ ("1175275074171" :> 13)
    @@ ("ru:OOO" :> 3)
    @@ ("ru:Akme" :> 4)
    @@ ("ru:okazyvaet" :> 9)
    @@ ("ru:INN" :> 3)
    @@ ("ru:Krupnejshee" :> 10)
    @@ ("ru:agentstvo" :> 9)
    @@ ("ru:versii" :> 6)
    @@ ("ru:rejtinga" :> 8)
    @@ ("ru:plyus" :> 4)
    @@ ("ru:i" :> 1)
    @@ ("ru:prodazha" :> 7)
    @@ ("ru:dlya" :> 3)
    @@ ("ru:vsej" :> 4)
    @@ ("ru:strane" :> 6)
    @@ ("ru:Akme." :> 5)
    @@ ("7701234567." :> 11)
    @@ ("ru:Kontakty" :> 8)
    @@ ("1175275074171." :> 14)
    @@ ("ru:meropriyatij." :> 12)
    @@ ("ru:Zanimaetsya:" :> 11)
    @@ ("ru:organizatsiya" :> 11)
    @@ ("ru:Osnovnye" :> 8)
    @@ ("ru:uslugi:" :> 7)
    @@ ("ru:prodazha." :> 8)
    @@ ("ru:Spetsializatsiya:" :> 14)
    @@ ("770123456789." :> 13)
    @@ ("12.34.567890" :> 12)
    @@ ("ru:plyus." :> 5)
    @@ ("ru:Zanimaetsya" :> 10)
    @@ ("ru:Spetsializatsiya" :> 13)
    @@ ("12" :> 2)
    @@ ("about" :> 5)
    @@ ("footer" :> 6)
    @@ ("company-info" :> 12)
    @@ ("1175275074" :> 10)
    @@ ("ru:ooo" :> 3)
    @@ ("ru:akme" :> 4)
    @@ ("ru:inn" :> 3)
    @@ ("ru:krupnejshee" :> 10)
    @@ ("ru:akme." :> 5)
    @@ ("ru:kontakty" :> 8)
    @@ ("ru:zanimaetsya:" :> 11)
    @@ ("ru:osnovnye" :> 8)
    @@ ("ru:spetsializatsiya:" :> 14)
    @@ ("ru:zanimaetsya" :> 10)
    @@ ("ru:spetsializatsiya" :> 13)

\* w[:n] of a word that a slice cuts
CutOf ==
    (<<"1175275074171", 10>> :> "1175275074")

\* the words that end in '.', '!' or '?', and the word without that character
SentenceEnd ==
    ("ru:Akme." :> "ru:Akme")
    @@ ("7701234567." :> "7701234567")
    @@ ("1175275074171." :> "1175275074171")
    @@ ("ru:meropriyatij." :> "ru:meropriyatij")
    @@ ("ru:prodazha." :> "ru:prodazha")
    @@ ("770123456789." :> "770123456789")
    @@ ("ru:plyus." :> "ru:plyus")
    @@ ("ru:akme." :> "ru:akme")

\* the words with a '.', and the part before the first '.'
BeforeDot ==
    ("ru:Akme." :> "ru:Akme")
    @@ ("7701234567." :> "7701234567")
    @@ ("1175275074171." :> "1175275074171")
    @@ ("ru:meropriyatij." :> "ru:meropriyatij")
    @@ ("ru:prodazha." :> "ru:prodazha")
    @@ ("770123456789." :> "770123456789")
    @@ ("12.34.567890" :> "12")
    @@ ("ru:plyus." :> "ru:plyus")
    @@ ("ru:akme." :> "ru:akme")

\* the words that end in ':', and the word without the colons
BeforeColon ==
    ("ru:Zanimaetsya:" :> "ru:Zanimaetsya")
    @@ ("ru:uslugi:" :> "ru:uslugi")
    @@ ("ru:Spetsializatsiya:" :> "ru:Spetsializatsiya")
    @@ ("ru:zanimaetsya:" :> "ru:zanimaetsya")
    @@ ("ru:spetsializatsiya:" :> "ru:spetsializatsiya")

\* the lengths of the maximal runs of digits in a word (words without a
\* digit are left out)
DigitRunsOf ==
    ("7701234567" :> {10})
    @@ ("770123456789" :> {12})
    @@ ("1175275074171" :> {13})
    @@ ("7701234567." :> {10})
    @@ ("1175275074171." :> {13})
    @@ ("770123456789." :> {12})
    @@ ("12.34.567890" :> {2, 6})
    @@ ("12" :> {2})
    @@ ("1175275074" :> {10})

\* listorg_parser.py 316-324: legal_patterns, by name:
\*   inn-number     \binn\s*\d{10,12}\b      ogrn-number   \bogrn\s*\d{13,15}\b
\*   okpo-number    \bokpo\s*\d{8,10}\b      dotted-number \d{2}[\.]\d{2}[\.]\d{6,7}
\*   13-15-digits   \d{13,15}                 ooo-word      \booo\b
\*   and the phrase for "limited liability company"
legal_patterns ==
    { "inn-number", "ogrn-number", "okpo-number", "dotted-number",
      "13-15-digits", "ru:obshchestvo s ogranichennoj otvetstvennost'yu",
      "ooo-word" }

\* pattern \in PatternsOf[w]: re.search(pattern, w) finds a match inside the word
PatternsOf ==
    ("1175275074171" :> {"13-15-digits"})
    @@ ("1175275074171." :> {"13-15-digits"})
    @@ ("12.34.567890" :> {"dotted-number"})
    @@ ("ru:ooo" :> {"ooo-word"})

\* <<w1, w2, pattern>>: the pattern matches in "w1 w2" across the space
PatternPairs ==
    { <<"ru:inn", "7701234567", "inn-number">>,
      <<"ru:inn", "770123456789", "inn-number">>,
      <<"ru:inn", "7701234567.", "inn-number">>,
      <<"ru:inn", "770123456789.", "inn-number">>,
      <<"ru:inn", "1175275074", "inn-number">> }

\* listorg_parser.py 220-221: desc_classes
desc_classes ==
    { "description", "about", "info", "text", "desc", "activity", "services",
      "ru:uslugi", "ru:deyatel'nost'" }

\* listorg_parser.py 237-245: patterns, each `label[:\s]*([^\n\.]{10,150})`; the
\* labels, lower case, in the order of the list
desc_patterns ==
    << <<"ru:predostavlyaet", "ru:uslugi">>, <<"ru:spetsializatsiya">>,
      <<"ru:osnovnye", "ru:uslugi">>, <<"ru:zanimaetsya">>,
      <<"ru:osushchestvlyaet", "ru:deyatel'nost'">>,
      <<"ru:deyatel'nost'", "ru:kompanii">>,
      <<"ru:kompaniya", "ru:rabotaet", "ru:v", "ru:sfere">> >>

\* listorg_parser.py 272-283: legal_phrases
legal_phrases ==
    { "ru:obshchestvo s ogranichennoj otvetstvennost'yu", "ru:ooo", "ru:zao",
      "ru:oao", "ru:ao", "ru:pao", "ru:inn", "ru:ogrn", "ru:okpo",
      "ru:oktmo", "ru:okogu", "ru:pokazateli", "ru:adres", "ru:rukovoditel'",
      "ru:telefon", "ru:vid deyatel'nosti kompanii",
      "ru:yuridicheskij adres", "ru:fakticheskij adres",
      "ru:osnovnoj gosudarstvennyj registratsionnyj nomer",
      "ru:obshcherossijskij klassifikator", "ru:data registratsii",
      "ru:ustavnyj kapital", "ru:kpp", "ru:egryul" }

\* listorg_parser.py 298-304: activity_keywords
activity_keywords ==
    { "ru:uslugi", "ru:deyatel'nost'", "ru:rabotaet", "ru:zanimaetsya",
      "ru:spetsializatsiya", "ru:predostavlyaet", "ru:okazyvaet",
      "ru:proizvodstvo", "ru:prodazha", "ru:organizatsiya", "ru:razrabotka",
      "ru:vnedrenie", "ru:provedenie", "ru:sozdanie", "ru:realizatsiya",
      "ru:obsluzhivanie" }

\* len(text)
RECURSIVE len(_)
len(text) ==
    IF text = <<>> THEN 0
    ELSE CharsOf[Head(text)] + (IF Len(text) > 1 THEN 1 ELSE 0) + len(Tail(text))

\* text[:n].strip()
RECURSIVE take(_, _)
take(text, n) ==
    IF text = <<>> \/ n <= 0 THEN <<>>
    ELSE IF CharsOf[Head(text)] < n
         THEN <<Head(text)>> \o take(Tail(text), n - CharsOf[Head(text)] - 1)
         ELSE IF CharsOf[Head(text)] = n THEN <<Head(text)>>
         ELSE <<CutOf[<<Head(text), n>>]>>

\* text.endswith(suffix), for a text of one word
endswith(text, suffix) ==
    /\ text # <<>>
    /\ text[1] \in DOMAIN SuffixesOf
    /\ suffix \in SuffixesOf[text[1]]

\* name in text: the words of the name in a row, the first one at the end of
\* its word of the text and the last one at the start of its word
occurs(name, text) ==
    \/ name = <<>>
    \/ Len(name) = 1 /\ contains(text, name[1])
    \/ /\ Len(name) > 1
       /\ \E i \in 1..(Len(text) - Len(name) + 1) :
              /\ endswith(<<text[i]>>, name[1])
              /\ \A j \in 2..(Len(name) - 1) : text[i + j - 1] = name[j]
              /\ startswith(<<text[i + Len(name) - 1]>>, name[Len(name)])

\* listorg_parser.py 194-207: whitespace runs become one space, the ends are
\* stripped; '' for an empty text
_clean_text(text) == IF text = <<>> THEN <<>> ELSE text

\* listorg_parser.py 266-309
_is_real_description(text, company_name) ==
    LET text_lower == lower(text)
        name_lower == lower(company_name)
    IN  IF any_in(legal_phrases, text_lower) THEN FALSE
        ELSE IF occurs(name_lower, text_lower) /\ len(text_lower) < len(name_lower) * 2
             THEN FALSE
        ELSE IF len(text) < 20 \/ len(text) > 500 THEN FALSE
        ELSE IF ~any_in(activity_keywords, text_lower) THEN FALSE
        ELSE TRUE

\* re.search(pattern, text) for a pattern of legal_patterns
matches(pattern, text) ==
    \/ \E i \in DOMAIN text :
           text[i] \in DOMAIN PatternsOf /\ pattern \in PatternsOf[text[i]]
    \/ \E i \in 1..(Len(text) - 1) : <<text[i], text[i + 1], pattern>> \in PatternPairs

\* listorg_parser.py 311-330
_contains_legal_info(text) ==
    \E pattern \in legal_patterns : matches(pattern, lower(text))

\* re.split(r'[\.!?]\s+', text): a word that ends a sentence and has a word
\* after it loses its last character and closes the sentence
RECURSIVE split_sentences(_, _)
split_sentences(text, sentence) ==
    IF text = <<>> THEN <<sentence>>
    ELSE IF Len(text) > 1 /\ Head(text) \in DOMAIN SentenceEnd
         THEN <<Append(sentence, SentenceEnd[Head(text)])>> \o split_sentences(Tail(text), <<>>)
         ELSE split_sentences(Tail(text), Append(sentence, Head(text)))

\* the label of a pattern stands at word i of the text (re.IGNORECASE); the
\* colons after it belong to `[:\s]*`
label_at(text, i, label) ==
    /\ i + Len(label) - 1 <= Len(text)
    /\ \A j \in DOMAIN label :
           LET w == lower(text)[i + j - 1]
           IN  IF j = Len(label) /\ w \in DOMAIN BeforeColon
               THEN BeforeColon[w] = label[j]
               ELSE w = label[j]

\* [^\n\.]*: the text up to its first '.'
RECURSIVE up_to_dot(_)
up_to_dot(text) ==
    IF text = <<>> THEN <<>>
    ELSE IF Head(text) \in DOMAIN BeforeDot THEN <<BeforeDot[Head(text)]>>
    ELSE <<Head(text)>> \o up_to_dot(Tail(text))

\* match.group(1).strip() of a match of the label at word i
group_1(text, i, label) ==
    take(up_to_dot(SubSeq(text, i + Len(label), Len(text))), 150)

\* re.search(pattern, text, re.IGNORECASE): the leftmost place where the
\* label is followed by at least 10 characters without a '.'; None if none
search(label, text) ==
    LET at == {i \in DOMAIN text : label_at(text, i, label) /\ len(group_1(text, i, label)) >= 10}
    IN  IF at = {} THEN None
        ELSE group_1(text, CHOOSE i \in at : \A k \in at : i <= k, label)

\* a p, div or span of the page: tag.get('class'), tag.get('id'), get_text(strip=True)
Tag(class, id, text) == [class |-> class, id |-> id, text |-> text]

\* listorg_parser.py 223-229: the class or the id holds a word of desc_classes
is_description_block(tag) ==
    \/ any_in(desc_classes, lower(tag.class))
    \/ any_in(desc_classes, lower(tag.id))

\* listorg_parser.py 209-264: the step that returns and the value returned
_extract_clean_description(soup, text, company_name) ==
    LET meta_desc == soup.meta
        blocks    == {i \in DOMAIN soup.tags :
                         /\ is_description_block(soup.tags[i])
                         /\ _is_real_description(soup.tags[i].text, company_name)}
        found     == {k \in DOMAIN desc_patterns :
                         /\ search(desc_patterns[k], text) # None
                         /\ _is_real_description(search(desc_patterns[k], text), company_name)}
        sentences == split_sentences(text, <<>>)
        plain     == {i \in DOMAIN sentences :
                         /\ 30 < len(sentences[i]) /\ len(sentences[i]) < 200
                         /\ _is_real_description(sentences[i], company_name)
                         /\ ~_contains_legal_info(sentences[i])}
        first(S)  == CHOOSE i \in S : \A k \in S : i <= k
    IN  IF Truthy(meta_desc) /\ _is_real_description(meta_desc, company_name)
        THEN [step |-> 1, value |-> _clean_text(take(meta_desc, 200))]
        ELSE IF blocks # {}
        THEN [step |-> 2, value |-> _clean_text(take(soup.tags[first(blocks)].text, 200))]
        ELSE IF found # {}
        THEN [step |-> 3,
              value |-> _clean_text(take(search(desc_patterns[first(found)], text), 200))]
        ELSE IF plain # {}
        THEN [step |-> 4, value |-> _clean_text(sentences[first(plain)])]
        ELSE [step |-> 5, value |-> None]

\* the most labelled blocks on a page
MaxBlocks == 2

DescNames == { <<"ru:Akme">>, <<"ru:Akme", "ru:uslugi", "ru:plyus">> }

DescTexts ==
    {
      <<"ru:Okazyvaet", "ru:uslugi", "ru:po", "ru:organizatsii", "ru:meropriyatij">>,
      <<"ru:Okazyvaet", "ru:uslugi", "ru:po", "ru:organizatsii", "ru:meropriyatij", "7701234567">>,
      <<"ru:OOO", "ru:Akme", "ru:okazyvaet", "ru:uslugi", "ru:po", "ru:organizatsii", "ru:meropriyatij">>,
      <<"ru:Okazyvaet", "ru:uslugi">>,
      <<"ru:Krupnejshee", "ru:agentstvo", "ru:po", "ru:versii", "ru:rejtinga">>,
      <<"ru:Akme", "ru:uslugi", "ru:plyus", "ru:i", "ru:prodazha">>,
      <<"ru:Okazyvaet", "ru:uslugi", "ru:po", "ru:organizatsii", "ru:meropriyatij", "ru:Okazyvaet", "ru:uslugi", "ru:po", "ru:organizatsii", "ru:meropriyatij", "ru:Okazyvaet", "ru:uslugi", "ru:po", "ru:organizatsii", "ru:meropriyatij", "ru:Okazyvaet", "ru:uslugi", "ru:po", "ru:organizatsii", "ru:meropriyatij", "ru:i", "ru:prodazha", "ru:dlya", "1175275074171", "ru:po", "ru:vsej", "ru:strane">> }

\* meta content: no meta tag, an empty content, or a text
DescMetas == {None, <<>>} \cup DescTexts

DescTags ==
    {
      Tag(<<"about">>, <<>>, <<"ru:Okazyvaet", "ru:uslugi", "ru:po", "ru:organizatsii", "ru:meropriyatij", "770123456789">>),
      Tag(<<"footer">>, <<>>, <<"ru:Okazyvaet", "ru:uslugi", "ru:po", "ru:organizatsii", "ru:meropriyatij">>),
      Tag(<<"company-info">>, <<>>, <<"ru:INN", "7701234567", "ru:okazyvaet", "ru:uslugi", "ru:po", "ru:organizatsii", "ru:meropriyatij">>),
      Tag(<<"about">>, <<>>, <<"ru:Okazyvaet", "ru:uslugi", "ru:po", "ru:organizatsii", "ru:meropriyatij">>),
      Tag(<<>>, <<"about">>, <<"ru:Okazyvaet", "ru:uslugi", "ru:po", "ru:organizatsii", "ru:meropriyatij", "7701234567">>) }

\* the tags of a page, in document order
DescTagLists ==
    { tags \in BoundedSeq(DescTags, MaxBlocks) :
          \A i, j \in DOMAIN tags : i # j => tags[i] # tags[j] }

DescPageTexts ==
    { <<>>,
      <<"ru:Akme.", "ru:Okazyvaet", "ru:uslugi", "ru:po", "ru:organizatsii", "ru:meropriyatij", "7701234567.", "ru:Kontakty">>,
      <<"ru:Akme.", "ru:Okazyvaet", "ru:uslugi", "ru:po", "ru:organizatsii", "ru:meropriyatij", "1175275074171.", "ru:Kontakty">>,
      <<"ru:Okazyvaet", "ru:uslugi", "ru:po", "ru:organizatsii", "ru:meropriyatij.", "ru:Kontakty">>,
      <<"ru:Zanimaetsya:", "ru:organizatsiya", "ru:meropriyatij", "ru:i", "ru:prodazha", "7701234567.", "ru:Kontakty">>,
      <<"ru:Osnovnye", "ru:uslugi:", "ru:organizatsiya", "ru:meropriyatij", "ru:i", "ru:prodazha.", "ru:Kontakty">>,
      <<"ru:Spetsializatsiya:", "ru:prodazha", "ru:dlya", "ru:OOO", "ru:Akme.", "ru:Okazyvaet", "ru:uslugi", "ru:po", "ru:organizatsii", "ru:meropriyatij", "770123456789.", "ru:Kontakty">>,
      <<"ru:Okazyvaet", "ru:uslugi", "ru:po", "ru:organizatsii", "ru:meropriyatij", "12.34.567890", "ru:plyus.", "ru:Kontakty">> }

IdleDesc ==
    /\ desc_soup = [meta |-> None, tags |-> <<>>]
    /\ desc_text = <<>>
    /\ desc_name = <<>>
    /\ desc_out = Pending
    /\ desc_step = 0

\* a call of _extract_clean_description(soup, text, company_name)
InitDesc ==
    /\ desc_soup \in [meta : DescMetas, tags : DescTagLists]
    /\ desc_text \in DescPageTexts
    /\ desc_name \in DescNames
    /\ desc_out = Pending
    /\ desc_step = 0

ExtractCleanDescription ==
    /\ desc_out = Pending
    /\ desc_out' = _extract_clean_description(desc_soup, desc_text, desc_name).value
    /\ desc_step' = _extract_clean_description(desc_soup, desc_text, desc_name).step
    /\ UNCHANGED <<desc_soup, desc_text, desc_name, notDesc>>

IdleValid ==
    /\ inn_in = None /\ valid_out = "pending"
    /\ nat_company = <<>> /\ nat_by = "none" /\ nat_out = "pending"

NextValid == CheckFns \/ CheckBase
StartValid == InitValid /\ IdleFetch /\ IdleCls /\ InitMerge /\ IdlePipe /\ IdleDesc
SpecValid == StartValid /\ [][NextValid]_vars

NextMerge ==
    \/ \E name \in ParserNames : AddSource(name)
    \/ \E company \in MergePool : AddCompany(company)
    \/ Merge
StartMerge == InitMerge /\ IdleFetch /\ IdleValid /\ IdleCls /\ IdlePipe /\ IdleDesc
SpecMerge == StartMerge /\ [][NextMerge]_vars

NextCls ==
    \/ \E by \in Classifiers : Classify(by)
    \/ ClassifyAgain
StartCls == InitCls /\ IdleFetch /\ IdleValid /\ InitMerge /\ IdlePipe /\ IdleDesc
SpecCls == StartCls /\ [][NextCls]_vars

NextFetch == (\E outcome \in Outcomes : Attempt(outcome)) \/ ReturnNone
StartFetch == InitFetch /\ IdleValid /\ IdleCls /\ InitMerge /\ IdlePipe /\ IdleDesc
SpecFetch == StartFetch /\ [][NextFetch]_vars

NextNat == \E by \in {"list_org", "fns_open_data", "rusprofile", "ruward"} : CheckNationality(by)
StartNat == InitNat /\ IdleFetch /\ IdleCls /\ InitMerge /\ IdlePipe /\ IdleDesc
SpecNat == StartNat /\ [][NextNat]_vars

NextDesc == ExtractCleanDescription
StartDesc == InitDesc /\ IdleFetch /\ IdleValid /\ IdleCls /\ InitMerge /\ IdlePipe
SpecDesc == StartDesc /\ [][NextDesc]_vars

Next ==
    \/ \E page \in DirectoryPages : ListOrgPage(page)
    \/ \E page \in DirectoryPages : RusprofilePage(page)
    \/ FinishDirectory
    \/ \E format \in {"xml", "json"} : FnsOpen(format)
    \/ FnsNoDataset
    \/ \E document \in XmlDocuments : FnsXmlDocument(document)
    \/ \E item \in JsonItems, year \in Years : FnsJsonItem(item, year)
    \/ FnsParseError
    \/ FinishFns
    \/ RuwardTestData
    \/ \E page \in RatingPages, year \in Years : RuwardPage(page, year)
    \/ RuwardLiveError
    \/ FinishRuward
    \/ ParserFails
    \/ RunMerge
    \/ SaveMerged
Init == InitPipe /\ IdleFetch /\ InitMerge /\ IdleValid /\ IdleCls /\ IdleDesc
Spec == Init /\ [][Next]_vars

(***************************************************************************)
(* Properties of merge_results                                             *)
(***************************************************************************)
\* the input of merge_results in walk order: <<parser_name, company>>
RECURSIVE Flat(_)
Flat(results) ==
    IF results = <<>> THEN <<>>
    ELSE [i \in DOMAIN Head(results)[2] |-> <<Head(results)[1], Head(results)[2][i]>>]
         \o Flat(Tail(results))

InnOf(company) == Get(company, "inn", None)
NameOf(company) == Get(company, "name", <<>>)
SiteOf(company) == Get(company, "site", <<>>)

\* a record without an INN that the catalog source files with a name and a site
RuwardKeyed(parser_name, company) ==
    /\ ~Truthy(InnOf(company))
    /\ parser_name = "ruward"
    /\ Truthy(NameOf(company))
    /\ Truthy(SiteOf(company))

\* a record without an INN that is not covered by the catalog rule
HashKeyed(parser_name, company) ==
    ~Truthy(InnOf(company)) /\ ~RuwardKeyed(parser_name, company)

\* C1: among the input records that carry the same non-empty inn, whatever
\* source they were filed under, the merged list holds exactly one, and it is
\* the first one met when the sources are walked in map order.
C1_FirstSeenWinsPerInn ==
    mpc = "merged" =>
        LET flat == Flat(all_results)
        IN  /\ \A i, j \in DOMAIN merged_companies :
                  (i # j /\ Truthy(InnOf(merged_companies[i])))
                      => InnOf(merged_companies[i]) # InnOf(merged_companies[j])
            /\ \A k \in DOMAIN flat :
                  Truthy(InnOf(flat[k][2])) =>
                      LET first == CHOOSE f \in DOMAIN flat :
                                       /\ InnOf(flat[f][2]) = InnOf(flat[k][2])
                                       /\ \A g \in 1..(f - 1) : InnOf(flat[g][2]) # InnOf(flat[k][2])
                      IN  \E m \in DOMAIN merged_companies :
                              /\ merged_companies[m] = flat[first][2]
                              /\ merged_from[m] = flat[first][1]

\* two different records with the same inn under two different sources were
\* merged, and only the earlier one is in the result
C1_Witness ==
    /\ mpc = "merged"
    /\ \E i, j \in DOMAIN Flat(all_results) :
          /\ i < j
          /\ Truthy(InnOf(Flat(all_results)[i][2]))
          /\ InnOf(Flat(all_results)[i][2]) = InnOf(Flat(all_results)[j][2])
          /\ Flat(all_results)[i][2] # Flat(all_results)[j][2]
          /\ Flat(all_results)[i][1] # Flat(all_results)[j][1]
          /\ \E m \in DOMAIN merged_companies : merged_companies[m] = Flat(all_results)[i][2]
          /\ \A m \in DOMAIN merged_companies : merged_companies[m] # Flat(all_results)[j][2]

\* C2: merging every list together with a second copy of itself gives as many
\* records as merging the lists alone (and the same records).
C2_SecondCopyAddsNothing ==
    mpc = "merged" =>
        /\ Len(merged_twice) = Len(merged_companies)
        /\ merged_twice = merged_companies

\* a merge of records with and without an inn that kept at least two of them
C2_Witness ==
    /\ mpc = "merged"
    /\ Len(merged_companies) >= 2
    /\ \E m \in DOMAIN merged_companies : Truthy(InnOf(merged_companies[m]))
    /\ \E m \in DOMAIN merged_companies : HashKeyed(merged_from[m], merged_companies[m])
    /\ \E m \in DOMAIN merged_companies : RuwardKeyed(merged_from[m], merged_companies[m])

\* C3: the catalog records without an inn that share a non-empty name and a
\* non-empty site are merged into exactly one record.
C3_RuwardNameSiteIdentity ==
    mpc = "merged" =>
        LET flat == Flat(all_results)
        IN  \A k \in DOMAIN flat :
                RuwardKeyed(flat[k][1], flat[k][2]) =>
                    Cardinality({m \in DOMAIN merged_companies :
                                    /\ RuwardKeyed(merged_from[m], merged_companies[m])
                                    /\ NameOf(merged_companies[m]) = NameOf(flat[k][2])
                                    /\ SiteOf(merged_companies[m]) = SiteOf(flat[k][2])}) = 1

\* two catalog records without an inn, same name and site, different in
\* another field, were merged
C3_Witness ==
    /\ mpc = "merged"
    /\ \E i, j \in DOMAIN Flat(all_results) :
          /\ i < j
          /\ RuwardKeyed(Flat(all_results)[i][1], Flat(all_results)[i][2])
          /\ RuwardKeyed(Flat(all_results)[j][1], Flat(all_results)[j][2])
          /\ NameOf(Flat(all_results)[i][2]) = NameOf(Flat(all_results)[j][2])
          /\ SiteOf(Flat(all_results)[i][2]) = SiteOf(Flat(all_results)[j][2])
          /\ Keys(Flat(all_results)[i][2]) # Keys(Flat(all_results)[j][2])

\* C4: a record without an inn that the catalog rule does not cover is
\* identified by its full set of fields: records with the same fields merge
\* into one whatever the order the fields were inserted in, and records that
\* differ in any field are both kept.
C4_FullFieldSetIdentity ==
    mpc = "merged" =>
        LET flat == Flat(all_results)
            kept == {m \in DOMAIN merged_companies : HashKeyed(merged_from[m], merged_companies[m])}
        IN  /\ \A m, n \in kept : m # n => Range(merged_companies[m]) # Range(merged_companies[n])
            /\ \A k \in DOMAIN flat :
                  HashKeyed(flat[k][1], flat[k][2]) =>
                      \E m \in kept : Range(merged_companies[m]) = Range(flat[k][2])

(***************************************************************************)
(* Properties of the identifier validity test                              *)
(***************************************************************************)
\* C6: the validity test answers true if and only if the identifier is
\* non-empty, consists only of decimal digits and has length exactly 10 or
\* exactly 12.
C6_ValidIffDecimalDigits ==
    valid_out # "pending" =>
        (valid_out = "True" <=>
            /\ inn_in # None
            /\ inn_in # <<>>
            /\ Len(inn_in) \in {10, 12}
            /\ \A i \in DOMAIN inn_in : inn_in[i] \in AsciiDigits)

(***************************************************************************)
(* Properties of the segment classifiers                                   *)
(***************************************************************************)
\* the text a classifier searches
ClsText(by, company_data) ==
    LET name == lower(Get(company_data, "name", <<>>))
        desc == lower(Get(company_data, "description", <<>>))
        site == lower(Get(company_data, "site", <<>>))
    IN  CASE by = "fns"    -> name
          [] by = "legacy" -> joined(joined(name, desc), site)
          [] OTHER         -> joined(name, desc)

\* the keywords and the OKVED prefixes of the four clusters
ClsKeywords(by) ==
    CASE by = "listorg"    -> listorg_segment_btl_keywords \cup listorg_segment_souvenir_keywords
                                \cup listorg_segment_full_cycle_keywords \cup listorg_segment_comm_keywords
      [] by = "fns"        -> fns_segment_btl_keywords \cup fns_segment_souvenir_keywords
                                \cup fns_segment_full_cycle_keywords \cup fns_segment_comm_keywords
      [] by = "rusprofile" -> rusprofile_segment_btl_keywords \cup rusprofile_segment_souvenir_keywords
                                \cup rusprofile_segment_full_cycle_keywords \cup rusprofile_segment_comm_keywords
      [] by = "legacy"     -> legacy_segment_btl_keywords \cup legacy_segment_souvenir_keywords
                                \cup legacy_segment_full_cycle_keywords \cup legacy_segment_comm_group_keywords

ClsOkvedCodes(by) ==
    IF by = "legacy" THEN {legacy_okved_codes[i][1] : i \in DOMAIN legacy_okved_codes}
    ELSE {"73.11", "18.12", "73.12"}

NoClusterMatches(by, company_data) ==
    /\ ~any_in(ClsKeywords(by), ClsText(by, company_data))
    /\ \A code \in ClsOkvedCodes(by) : ~startswith(Get(company_data, "okved_main", <<>>), code)

\* the generic advertising/marketing term the stand-alone parser looks for
GenericTerm(by, company_data) ==
    /\ by = "legacy"
    /\ \/ contains(ClsText(by, company_data), "ru:reklam")
       \/ contains(ClsText(by, company_data), "ru:marketing")

Collected == Range(Flat(all_results))

\* C5: every record an adapter returned has a revenue, of at least
\* 200 000 000 for list_org, rusprofile and fns_open_data and of at least
\* 100 000 000 for ruward; a revenue of 150 000 000 is in no output of the
\* former and can be in the output of the latter.
C5_RevenueAtLeastFloor ==
    \A r \in Collected :
        LET revenue == Get(r[2], "revenue", NoneInt)
        IN  /\ revenue # NoneInt
            /\ r[1] = "ruward" => revenue >= 100000000
            /\ r[1] # "ruward" => revenue >= 200000000

\* every parser has returned: list_org and fns_open_data returned records
\* and ruward returned a record whose revenue is 150 000 000
C5_Witness ==
    /\ ppc = "collected"
    /\ \E r \in Collected : r[1] = "list_org"
    /\ \E r \in Collected : r[1] = "fns_open_data"
    /\ \E r \in Collected : r[1] = "ruward" /\ Get(r[2], "revenue", NoneInt) = 150000000

\* the validator as the specification states it
IsValidIdentifier(inn) ==
    /\ inn # None
    /\ inn # <<>>
    /\ Len(inn) \in {10, 12}
    /\ \A i \in DOMAIN inn : inn[i] \in AsciiDigits

\* C7: every record an adapter returned has an identity: an inn that is a
\* valid identifier or, for ruward only, a non-empty name and a site.
C7_CollectedHasIdentity ==
    \A r \in Collected :
        \/ IsValidIdentifier(Get(r[2], "inn", None))
        \/ /\ r[1] = "ruward"
           /\ Truthy(Get(r[2], "name", None))
           /\ Truthy(Get(r[2], "site", None))

\* C8: every record of the merged list has a non-empty name.
C8_MergedHasName ==
    mpc \in {"merged", "saved"} =>
        \A m \in DOMAIN merged_companies : Truthy(Get(merged_companies[m], "name", None))

\* the merged list holds a record from a directory page, one from an XML
\* document of the tax service and one from a catalog page
C8_Witness ==
    /\ mpc = "merged"
    /\ \E m \in DOMAIN merged_companies : merged_from[m] = "list_org"
    /\ \E m \in DOMAIN merged_companies :
           merged_from[m] = "fns_open_data" /\ Has(merged_companies[m], "okved")
    /\ \E m \in DOMAIN merged_companies :
           merged_from[m] = "ruward" /\ Has(merged_companies[m], "url")

\* C10: every row of the exported table has a non-blank segment tag.
C10_ExportedHasSegmentTag ==
    mpc = "saved" =>
        \A r \in DOMAIN exported.rows :
            \E j \in DOMAIN exported.columns :
                exported.columns[j] = "segment_tag" /\ exported.rows[r][j] # <<>>

(***************************************************************************)
(* Properties of the adapters' collect loops                               *)
(***************************************************************************)
\* the list a parser returned
ResultOf(parser_name) ==
    all_results[CHOOSE i \in DOMAIN all_results : all_results[i][1] = parser_name][2]

Returned(parser_name) == \E i \in DOMAIN all_results : all_results[i][1] = parser_name

FirstWithInn(list, inn) ==
    list[CHOOSE i \in DOMAIN list :
             /\ Get(list[i], "inn", None) = inn
             /\ \A j \in 1..(i - 1) : Get(list[j], "inn", None) # inn]

NoInnTwice(list) ==
    \A i, j \in DOMAIN list :
        (i # j /\ Truthy(Get(list[i], "inn", None)))
            => Get(list[i], "inn", None) # Get(list[j], "inn", None)

\* C12: no list a collect_companies call builds or returns holds two records
\* with the same inn; while a directory adapter walks its links the records
\* it has gathered stay as they are, and the tax adapter returns, for each
\* inn, the first record parsed with it.
C12_FirstInnWinsWithinCollect ==
    /\ [](\A i \in DOMAIN all_results : NoInnTwice(all_results[i][2]))
    /\ [](ppc \in {"list_org", "rusprofile"} => NoInnTwice(cur_companies))
    /\ [][(ppc \in {"list_org", "rusprofile"} /\ ppc' = ppc)
             => /\ Len(cur_companies') >= Len(cur_companies)
                /\ SubSeq(cur_companies', 1, Len(cur_companies)) = cur_companies]_vars
    /\ [][(ppc = "fns_open_data" /\ ppc' # ppc)
             => \A r \in Range(ResultOf("fns_open_data")') :
                    r = FirstWithInn(cur_companies, Get(r, "inn", None))]_vars

\* list_org holds one record and was given another page that yields a
\* different record with the same inn
C12_Witness ==
    /\ ppc = "list_org"
    /\ Len(cur_companies) = 1
    /\ candidate.kind = "page"
    /\ listorg_parse_company_page(candidate.input) # None
    /\ listorg_parse_company_page(candidate.input) # cur_companies[1]
    /\ Get(listorg_parse_company_page(candidate.input), "inn", None)
           = Get(cur_companies[1], "inn", None)

(***************************************************************************)
(* Properties of the relevance filter.  The filters are read off the last  *)
(* candidate: a page under list_org or rusprofile, a document or an item   *)
(* under fns_open_data.                                                    *)
(***************************************************************************)
\* the record a directory adapter has assembled when it checks the profile
\* (listorg_parser.py 375-478, rusprofile_parser.py 79-156): the fields the
\* filters read
PageRecord(by, page) ==
    LET inn     == IF by = "list_org" THEN listorg_extract_inn(page.inn_digits)
                   ELSE rusprofile_extract_inn(page.inn_digits)
        revenue == IF by = "list_org" THEN listorg_extract_revenue(page.revenues)
                   ELSE rusprofile_extract_revenue(page.revenues)
        fields  == << <<"inn", inn>>, <<"name", page.name>>, <<"revenue", revenue>>,
                      <<"okved_main", IF page.okved # <<>> THEN page.okved ELSE None>>,
                      <<"description",
                        IF page.description # <<>> THEN page.description ELSE None>> >>
    IN  Append(fields,
               <<"segment_tag",
                 IF by = "list_org" THEN listorg_determine_segment(fields)
                 ELSE rusprofile_determine_segment(fields)>>)

\* the page has the mandatory fields: it was fetched and has a name and an inn
PageComplete(by, page) ==
    /\ page.ok
    /\ page.name # <<>>
    /\ Truthy(Get(PageRecord(by, page), "inn", None))

PageAccepted(by, page) ==
    IF by = "list_org" THEN listorg_parse_company_page(page) # None
    ELSE rusprofile_parse_company_page(page) # None

\* the record the tax adapter has assembled from a document or an item
\* (None: the item was dropped for want of an inn or a name)
FnsRecord(c) ==
    IF c.kind = "document" THEN fns_xml_company_data(c.input)
    ELSE fns_extract_company_from_json(c.input, CHOOSE year \in Years : TRUE)

\* revenue is present and at least the floor of the directory and tax sources
RevenueFloor(company_data) ==
    /\ TruthyInt(Get(company_data, "revenue", NoneInt))
    /\ Get(company_data, "revenue", NoneInt) >= 200000000

\* the profile relevance rule as the specification states it: a keyword in
\* name + description, or an allow-listed prefix of the industry code; the
\* vocabulary and the allow-list are those of listorg_parser.py
ProfileRelevance(company_data) ==
    LET name        == lower(Get(company_data, "name", <<>>))
        description == lower(Get(company_data, "description", <<>>))
        okved       == Get(company_data, "okved_main", <<>>)
    IN  \/ any_in(listorg_profile_btl_keywords \cup listorg_profile_souvenir_keywords
                     \cup listorg_profile_full_cycle_keywords
                     \cup listorg_profile_comm_keywords,
                  joined(name, description))
        \/ \E code \in listorg_profile_relevant_okveds : startswith(okved, code)

\* the profile check of each adapter; rusprofile defines none of its own and
\* is held to the rule of the specification
ProfileCheck(by, company_data) ==
    CASE by = "list_org"      -> listorg_is_relevant_profile(company_data)
      [] by = "fns_open_data" -> fns_is_relevant_profile(company_data)
      [] by = "rusprofile"    -> ProfileRelevance(company_data)

AllThree(by, company_data) ==
    /\ NationalityCheck(by, company_data)
    /\ RevenueFloor(company_data)
    /\ ProfileCheck(by, company_data)

\* C13: a candidate that has the mandatory fields is accepted by list_org,
\* rusprofile and fns_open_data if and only if the nationality check, the
\* revenue floor and the profile check all pass.
C13_AcceptedIffAllThree ==
    /\ (candidate.kind = "page" /\ PageComplete(ppc, candidate.input))
           => (PageAccepted(ppc, candidate.input)
                 <=> AllThree(ppc, PageRecord(ppc, candidate.input)))
    /\ (candidate.kind \in {"document", "item"} /\ FnsRecord(candidate) # None
           /\ fns_inn_valid(Get(FnsRecord(candidate), "inn", None)))
           => (fns_is_relevant_company(FnsRecord(candidate))
                 <=> AllThree("fns_open_data", FnsRecord(candidate)))

\* C14: the nationality check of every adapter answers True for every
\* record, whatever its inn, region, address, industry code and contacts.
C14_NationalityAlwaysTrue == nat_by # "none" => nat_out = "True"

\* list_org has checked a record with no inn, a foreign region, no industry
\* code and no Russian phone prefix: the last return of the check
C14_Witness ==
    /\ nat_by = "list_org"
    /\ nat_out = "True"
    /\ ~Has(nat_company, "inn")
    /\ Get(nat_company, "region", None) = <<"Berlin">>
    /\ ~Has(nat_company, "okved_main")
    /\ Get(nat_company, "contacts", None) = <<"Berlin">>

\* the industry code of an assembled record: the directory adapters and the
\* JSON path file it under okved_main, the XML path under okved
\* (fns_parser.py 192-193)
IndustryCode(company_data) ==
    IF Truthy(Get(company_data, "okved_main", None)) THEN Get(company_data, "okved_main", None)
    ELSE Get(company_data, "okved", <<>>)

\* the answer of the profile check the adapter calls on the record
ProfileAnswer(by, company_data) ==
    CASE by = "list_org"      -> listorg_is_relevant_profile(company_data)
      [] by = "rusprofile"    -> base_is_relevant_profile(company_data)
      [] by = "fns_open_data" -> fns_is_relevant_profile(company_data)

\* C15: for a record that reaches the profile check of list_org, rusprofile
\* or fns_open_data (XML document or JSON item), the check answers True when
\* name + description has a keyword of the vocabulary, and when the industry
\* code starts with an allow-listed prefix.
C15_ProfileTrueOnKeywordOrCode ==
    /\ (candidate.kind = "page" /\ PageComplete(ppc, candidate.input)
           /\ RevenueFloor(PageRecord(ppc, candidate.input)))
           => (ProfileRelevance(PageRecord(ppc, candidate.input))
                 => ProfileAnswer(ppc, PageRecord(ppc, candidate.input)))
    /\ (candidate.kind \in {"document", "item"} /\ FnsRecord(candidate) # None
           /\ fns_inn_valid(Get(FnsRecord(candidate), "inn", None))
           /\ RevenueFloor(FnsRecord(candidate)))
           => LET company_data == FnsRecord(candidate)
                  name         == lower(Get(company_data, "name", <<>>))
                  description  == lower(Get(company_data, "description", <<>>))
              IN  (\/ any_in(fns_profile_relevant_keywords, joined(name, description))
                   \/ \E code \in fns_profile_relevant_okveds :
                          startswith(IndustryCode(company_data), code))
                    => ProfileAnswer("fns_open_data", company_data)

(***************************************************************************)
(* Properties of the segment classifiers: the union of the labels          *)
(***************************************************************************)
ClsLabels == {"BTL", "SOUVENIR", "FULL_CYCLE", "COMM_GROUP"}

\* the keyword list of one cluster
ClsCluster(by, label) ==
    CASE by = "listorg" ->
           (CASE label = "BTL"        -> listorg_segment_btl_keywords
              [] label = "SOUVENIR"   -> listorg_segment_souvenir_keywords
              [] label = "FULL_CYCLE" -> listorg_segment_full_cycle_keywords
              [] label = "COMM_GROUP" -> listorg_segment_comm_keywords)
      [] by = "fns" ->
           (CASE label = "BTL"        -> fns_segment_btl_keywords
              [] label = "SOUVENIR"   -> fns_segment_souvenir_keywords
              [] label = "FULL_CYCLE" -> fns_segment_full_cycle_keywords
              [] label = "COMM_GROUP" -> fns_segment_comm_keywords)
      [] by = "rusprofile" ->
           (CASE label = "BTL"        -> rusprofile_segment_btl_keywords
              [] label = "SOUVENIR"   -> rusprofile_segment_souvenir_keywords
              [] label = "FULL_CYCLE" -> rusprofile_segment_full_cycle_keywords
              [] label = "COMM_GROUP" -> rusprofile_segment_comm_keywords)
      [] by = "legacy" ->
           (CASE label = "BTL"        -> legacy_segment_btl_keywords
              [] label = "SOUVENIR"   -> legacy_segment_souvenir_keywords
              [] label = "FULL_CYCLE" -> legacy_segment_full_cycle_keywords
              [] label = "COMM_GROUP" -> legacy_segment_comm_group_keywords)

\* the OKVED prefixes that give one label
ClsCodes(by, label) ==
    IF by = "legacy"
    THEN {legacy_okved_codes[i][1] : i \in {j \in DOMAIN legacy_okved_codes :
                                               legacy_okved_codes[j][2] = label}}
    ELSE CASE label = "BTL"        -> {"73.11"}
           [] label = "SOUVENIR"   -> {"18.12"}
           [] label = "FULL_CYCLE" -> {}
           [] label = "COMM_GROUP" -> {"73.12"}

\* the labels whose keyword test or code-prefix test matches the record
MatchingLabels(by, company_data) ==
    { label \in ClsLabels :
        \/ any_in(ClsCluster(by, label), ClsText(by, company_data))
        \/ \E code \in ClsCodes(by, label) :
               startswith(Get(company_data, "okved_main", <<>>), code) }

\* no keyword of any cluster in name + description
NoKeywordInNameAndDescription(by, company_data) ==
    ~any_in(ClsKeywords(by), joined(lower(Get(company_data, "name", <<>>)),
                                    lower(Get(company_data, "description", <<>>))))

\* C16: when some keyword cluster or code-prefix test matches, the labels
\* returned are, as a set, the labels of all the tests that match, each once;
\* a record with no keyword in name + description and a code that starts
\* with 73.11 gets exactly BTL.
C16_UnionOfMatchingLabels ==
    cls_by # "none" =>
        /\ MatchingLabels(cls_by, cls_company) # {}
              => /\ Range(cls_labels) = MatchingLabels(cls_by, cls_company)
                 /\ Len(cls_labels) = Cardinality(MatchingLabels(cls_by, cls_company))
        /\ (/\ NoKeywordInNameAndDescription(cls_by, cls_company)
            /\ startswith(Get(cls_company, "okved_main", <<>>), "73.11"))
              => cls_labels = <<"BTL">>

(***************************************************************************)
(* Properties of _make_request                                             *)
(***************************************************************************)
\* C17: a fetch sends at most max_retries requests; it returns the response
\* of the first request that gives 200, sending none after it, and
\* otherwise returns None after max_retries requests; until it returns it
\* can always go on, whatever the responses and exceptions.
C17_FetchBounded ==
    fetch_by # "none" =>
        /\ Len(fetch_seen) <= fetch_max_retries
        /\ \A i \in 1..(Len(fetch_seen) - 1) : fetch_seen[i] # Response(200)
        /\ fetch_pc = "loop" => fetch_result = Pending /\ ENABLED NextFetch
        /\ fetch_pc = "returned" =>
              IF \E i \in DOMAIN fetch_seen : fetch_seen[i] = Response(200)
              THEN fetch_result = Response(200)
                   /\ fetch_seen[Len(fetch_seen)] = Response(200)
              ELSE fetch_result = None /\ Len(fetch_seen) = fetch_max_retries

\* the second request gave 200 after a timeout, with a third one allowed
C17_Witness ==
    /\ fetch_max_retries = 3
    /\ fetch_seen = <<Raised, Response(200)>>
    /\ fetch_pc = "returned"
    /\ fetch_result = Response(200)

(***************************************************************************)
(* Properties of run_all_parsers                                           *)
(***************************************************************************)
\* C18: a parser whose run raised has the empty list as its entry; the
\* parser after it starts all the same, and when run_all_parsers returns
\* every registered parser has an entry.
C18_FailureIsolated ==
    /\ [](\A parser_name \in failed :
             \E i \in DOMAIN all_results : all_results[i] = <<parser_name, <<>>>>)
    /\ [](ppc = "collected" => \A i \in DOMAIN parsers : Returned(parsers[i]))
    /\ [][failed' # failed =>
             /\ ppc' = NextParser(ppc)
             /\ phase' = FirstPhase(ppc')
             /\ \A i \in DOMAIN all_results : all_results'[i] = all_results[i]]_vars

\* list_org raised and the parsers after it ran: fns_open_data and ruward
\* returned records
C18_Witness ==
    /\ ppc = "collected"
    /\ failed = {"list_org"}
    /\ ResultOf("list_org") = <<>>
    /\ ResultOf("fns_open_data") # <<>>
    /\ ResultOf("ruward") # <<>>

(***************************************************************************)
(* Properties of collect_companies: failures                               *)
(***************************************************************************)
\* where collect_companies is while it still takes candidates
LoopPhases == {"pages", "xml", "json", "live"}

\* C19: when an adapter has handled a candidate, whatever became of it, the
\* records accepted before are still in the list, in place, and the adapter
\* is still in its loop over the candidates.
C19_CandidateFailureNotFatal ==
    /\ []((ppc \in Range(parsers) /\ candidate.kind # "none") => phase \in LoopPhases)
    /\ [][(ppc' = ppc /\ candidate'.kind # "none")
            => /\ Len(cur_companies') >= Len(cur_companies)
               /\ SubSeq(cur_companies', 1, Len(cur_companies)) = cur_companies]_vars

\* where collect_companies is after a failure that is not one candidate's:
\* no dataset to read ("start"), a file that cannot be parsed ("parsed"), a
\* live collection that raised ("fallback")
SystemicFailure == phase \in {"start", "parsed", "fallback"}

\* C20: when fns_open_data or ruward returns after a systemic failure, it
\* returns the empty list.
C20_SystemicFailureGivesEmpty ==
    [][(/\ ppc \in {"fns_open_data", "ruward"}
        /\ ppc' # ppc
        /\ failed' = failed
        /\ SystemicFailure)
          => all_results'[Len(all_results')] = <<ppc, <<>>>>]_vars

(***************************************************************************)
(* Properties of parse_company_page                                        *)
(***************************************************************************)
\* what parse_company_page returned for the last page
Assembled ==
    CASE ppc = "list_org"   -> listorg_parse_company_page(candidate.input)
      [] ppc = "rusprofile" -> rusprofile_parse_company_page(candidate.input)
      [] ppc = "ruward"     ->
           ruward_parse_company_page(candidate.input, CHOOSE year \in Years : TRUE)

\* the mandatory fields: a non-empty name and an identity, which is a valid
\* inn or, for ruward, a site to go with the name
HasMandatoryFields(by, company_data) ==
    /\ Truthy(Get(company_data, "name", None))
    /\ \/ IsValidIdentifier(Get(company_data, "inn", None))
       \/ by = "ruward" /\ Truthy(Get(company_data, "site", None))

\* C21: parse_company_page of list_org, rusprofile and ruward returns None
\* or a record with a non-empty name and an identity.
C21_AssembledIsAbsentOrComplete ==
    candidate.kind \in {"page", "rating page"} =>
        Assembled = None \/ HasMandatoryFields(ppc, Assembled)

\* the value of the source field of a record
SourceOf(company) == Get(company, "source", Absent)

\* C22: every record an adapter returned carries a source field equal to the
\* name of that adapter, whichever way the record was decoded, and the
\* record has the same source value in the merged list.
C22_SourceNamesAdapter ==
    /\ \A r \in Collected : SourceOf(r[2]) = <<r[1]>>
    /\ \A i \in DOMAIN merged_companies : SourceOf(merged_companies[i]) = <<merged_from[i]>>

(***************************************************************************)
(* Properties of the description extractor                                 *)
(***************************************************************************)
\* a number of 10 or of 12 digits stands in the text
HasTaxIdNumeral(text) ==
    \E i \in DOMAIN text :
        text[i] \in DOMAIN DigitRunsOf /\ DigitRunsOf[text[i]] \cap {10, 12} # {}

\* a word for a company's legal form stands in the text
HasLegalForm(text) ==
    any_in({"ru:obshchestvo s ogranichennoj otvetstvennost'yu", "ru:ooo", "ru:zao",
            "ru:oao", "ru:ao", "ru:pao"}, lower(text))

\* C23: whatever the markup and the text, the description extractor returns
\* None or a text with no number of 10 or 12 digits and no legal-form word,
\* in each of its four steps.
C23_DescriptionHasNoIdNorLegalForm ==
    desc_step \in 1..4 =>
        /\ desc_out # None
        /\ ~HasTaxIdNumeral(desc_out)
        /\ ~HasLegalForm(desc_out)

(***************************************************************************)
(* merge_results and its arguments                                         *)
(***************************************************************************)
\* C24: merge_results leaves the lists it is given as they are, records and
\* order, and every record of the merged list is, field for field, a
\* record of the list of the source it was filed under.
C24_MergeLeavesInputsAlone ==
    /\ [](mpc # "input" =>
             \A i \in DOMAIN merged_companies :
                 <<merged_from[i], merged_companies[i]>> \in Collected)
    /\ [][mpc = "input" /\ mpc' # "input" => all_results' = all_results]_vars

C24_Witness ==
    /\ mpc = "merged"
    /\ Len(all_results) = 2
    /\ Len(merged_companies) = 2
    /\ Total(all_results) = 3

(***************************************************************************)
(* The last resort of the classifiers and the stored segment tag           *)
(***************************************************************************)
\* the text a classifier searches holds 'reklam' or 'marketing' (parser.py 490)
HasGenericTerm(by, company_data) ==
    \/ contains(ClsText(by, company_data), "ru:reklam")
    \/ contains(ClsText(by, company_data), "ru:marketing")

\* C25: a record that matches no keyword cluster and no code prefix is
\* classified COMM_GROUP when its text holds a generic advertising or
\* marketing term, by every classifier, and OTHER only when it holds none.
C25_LastResortCommGroup ==
    cls_by # "none" =>
        /\ (NoClusterMatches(cls_by, cls_company) /\ HasGenericTerm(cls_by, cls_company))
               => cls_labels = <<"COMM_GROUP">>
        /\ cls_labels = <<"OTHER">> => ~HasGenericTerm(cls_by, cls_company)

\* sorted() of the five labels
sorted_labels == <<"BTL", "COMM_GROUP", "FULL_CYCLE", "OTHER", "SOUVENIR">>

LabelRank(label) == CHOOSE i \in DOMAIN sorted_labels : sorted_labels[i] = label

\* parser.py 232, listorg_parser.py 520: '|'.join(segments) if segments else 'OTHER';
\* the tag is kept as its labels, in the order of the string
segment_tag(segments) == IF segments = <<>> THEN <<"OTHER">> ELSE segments

\* C26: the segment_tag stored for a record is its labels joined with '|',
\* in sorted order and each once, whichever clusters match.
C26_SegmentTagSortedOnce ==
    cls_by # "none" =>
        \A i, j \in DOMAIN segment_tag(cls_labels) :
            i < j => LabelRank(segment_tag(cls_labels)[i]) < LabelRank(segment_tag(cls_labels)[j])

(***************************************************************************)
(* The waits of _make_request                                              *)
(***************************************************************************)
\* a timeout or connection error, 429, or a 5xx status
Transient(outcome) ==
    IF outcome = Raised THEN TRUE ELSE outcome[2] = 429 \/ outcome[2] \in 500..599

\* the sleep between request i and request i + 1: <<>> or << <<low, high>> >>
WaitAfter(i) == retry_wait(fetch_by, i - 1, fetch_max_retries, fetch_seen[i])

\* C27: within one fetch, a request that fails transiently and is not the
\* last one allowed is followed by a wait, and each such wait is strictly
\* longer than the one before it.
C27_WaitsGrow ==
    fetch_by # "none" =>
        \A i \in DOMAIN fetch_seen :
            (Transient(fetch_seen[i]) /\ i < fetch_max_retries) =>
                /\ WaitAfter(i) # <<>>
                /\ (i > 1 /\ WaitAfter(i - 1) # <<>>)
                       => WaitAfter(i - 1)[1][2] < WaitAfter(i)[1][1]

(***************************************************************************)
(* The columns of the merged export                                        *)
(***************************************************************************)
\* the field names of the merged records
MergedKeys == UNION {Keys(merged_companies[i]) : i \in DOMAIN merged_companies}

\* the six leading columns
leading_columns == <<"inn", "name", "revenue_year", "revenue", "segment_tag", "source">>

\* sorted() of every other field name of the model's records
remaining_columns ==
    <<"address", "category", "contacts", "description", "employees", "foundation_year",
      "okved", "okved_main", "rating_category", "rating_position", "rating_ref",
      "region", "site", "url">>

\* C28: the columns of the merged export are the field names of the merged
\* records, each once: those of inn, name, revenue_year, revenue,
\* segment_tag, source that occur, in that order, then all the others in
\* alphabetical order.
C28_ColumnsLeadingThenSorted ==
    mpc = "saved" /\ merged_companies # <<>> =>
        exported.columns =
            SelectSeq(leading_columns, LAMBDA col : col \in MergedKeys)
                \o SelectSeq(remaining_columns, LAMBDA col : col \in MergedKeys)

(***************************************************************************)
(* The map run_all_parsers returns                                         *)
(***************************************************************************)
\* the entry of a parser is a list of dicts: the empty list when its run
\* raised, else what its collect_companies returned
IsListOfDicts(parser_name, v) ==
    IF parser_name \in failed THEN v = <<>>
    ELSE \A i \in DOMAIN v : \A k \in DOMAIN v[i] : Len(v[i][k]) = 2

\* C29: the map run_all_parsers builds has at most one entry per parser and
\* every entry is a list; when it is returned its keys are exactly the
\* registered parsers, whether their collect_companies returned records,
\* returned an empty list, or the run raised.
C29_OneListPerParser ==
    /\ \A i, j \in DOMAIN all_results : i # j => all_results[i][1] # all_results[j][1]
    /\ \A i \in DOMAIN all_results : IsListOfDicts(all_results[i][1], all_results[i][2])
    /\ ppc = "collected" => [i \in DOMAIN all_results |-> all_results[i][1]] = parsers

\* list_org returned records, rusprofile an empty list, the run of
\* fns_open_data raised, ruward returned records
C29_Witness ==
    /\ ppc = "collected"
    /\ failed = {"fns_open_data"}
    /\ ResultOf("list_org") # <<>>
    /\ ResultOf("rusprofile") = <<>>
    /\ ResultOf("ruward") # <<>>


(***************************************************************************)
(* The segment-tag shortcut of list_org's profile check                    *)
(***************************************************************************)
\* listorg_parser.py 478: the record as the profile check sees it, carrying
\* the classifier's labels joined by '|'
Tagged(company_data, labels) == Set(company_data, "segment_tag", labels)

\* listorg_parser.py 139-177: the check on a record with no segment_tag, for
\* which the shortcut of lines 133-137 cannot fire
listorg_keyword_or_code(company_data) ==
    listorg_is_relevant_profile(Set(company_data, "segment_tag", <<>>))

\* the keyword-or-code-prefix check of the adapter that classified the record
KeywordOrCode(by, company_data) ==
    IF by = "listorg" THEN listorg_keyword_or_code(company_data)
    ELSE fns_is_relevant_profile(company_data)

\* C30: a record that the list_org or the FNS classifier tags with a label
\* other than OTHER passes that adapter's keyword-or-code-prefix profile
\* check, and list_org's profile check on the tagged record equals the check
\* without the segment-tag shortcut.
C30_ShortcutNeverChangesOutcome ==
    cls_by \in {"listorg", "fns"} =>
        /\ cls_labels # <<"OTHER">> => KeywordOrCode(cls_by, cls_company)
        /\ cls_by = "listorg" =>
              listorg_is_relevant_profile(Tagged(cls_company, cls_labels))
                  = listorg_keyword_or_code(cls_company)

\* list_org tagged a record SOUVENIR on its activity code alone: no profile
\* keyword occurs in its name and description, the shortcut fires
C30_Witness ==
    /\ cls_by = "listorg"
    /\ cls_labels = <<"SOUVENIR">>
    /\ startswith(Get(cls_company, "okved_main", <<>>), "18.12")
    /\ any_in(listorg_profile_relevant_tags, cls_labels)
    /\ ~any_in(listorg_profile_btl_keywords \cup listorg_profile_souvenir_keywords
                   \cup listorg_profile_full_cycle_keywords \cup listorg_profile_comm_keywords,
               joined(lower(Get(cls_company, "name", <<>>)),
                      lower(Get(cls_company, "description", <<>>))))
    /\ listorg_keyword_or_code(cls_company)

============================================================================
